---------------------------- MODULE Spec2Model ----------------------------
(* State-machine model of the client-side game-state engine of            *)
(* valley-legend (frontend/app/page.tsx, frontend/lib/storyline.ts).       *)
(*                                                                         *)
(* The React component `Home` is modelled as one record of state cells.    *)
(* Event handlers and timer callbacks are pure operators from the rendered *)
(* state to the next state; every commit is followed by a flush of the     *)
(* passive effects (useEffect) whose dependencies changed, in declaration  *)
(* order, each effect reading its closure from the rendered state and      *)
(* applying its functional updaters to the queued state.                   *)
(*                                                                         *)
(* Quantities: amounts and capacities are integers in units of 1/400, so   *)
(* that a per-phase gain (rate in tenths x season multiplier in tenths /4) *)
(* is exact; rates are integers in tenths.                                 *)
EXTENDS Integers, Sequences, FiniteSets, TLC

\* ------------------------------------------------------------------ units
Unit == 400
Tenth == 40
U(n) == n * Unit
T(n) == n * Tenth

Min(a, b) == IF a < b THEN a ELSE b
Max(a, b) == IF a > b THEN a ELSE b

\* Number(x.toFixed(1)) for x >= 0: the nearest tenth.  A value that lies
\* half-way between two tenths in decimal is, as a binary double, slightly
\* above or below the half-way point depending on how it was accumulated,
\* so the direction of such a tie is an input (up).
Round1(x, up) ==
  LET lo == (x \div Tenth) * Tenth
      rem == x - lo
  IN IF 2 * rem > Tenth \/ (2 * rem = Tenth /\ up) THEN lo + Tenth ELSE lo

\* ------------------------------------------------------------- catalogs
ResourceKeys == <<"sunleaf", "wood", "stone", "science", "energy", "execution">>
ResourceKey == {ResourceKeys[i] : i \in 1..Len(ResourceKeys)}

NoDelta == [k \in {} |-> 0]
DeltaOf(d, k) == IF k \in DOMAIN d THEN d[k] ELSE 0

SKILL_EXP_PER_LEVEL == 100
MAX_SKILL_LEVEL == 100
SkillType == {"mining", "gathering"}
SKILL_RESOURCE_MAP ==
  [sunleaf |-> "gathering", wood |-> "gathering", stone |-> "mining",
   science |-> "none", energy |-> "gathering", execution |-> "none"]
INITIAL_SKILLS ==
  [t \in SkillType |-> [level |-> 1, experience |-> 0, maxLevel |-> MAX_SKILL_LEVEL]]

INITIAL_RESOURCES ==
  [sunleaf   |-> [amount |-> 0, rate |-> 0, capacity |-> U(40)],
   wood      |-> [amount |-> 0, rate |-> 0, capacity |-> U(40)],
   stone     |-> [amount |-> 0, rate |-> 0, capacity |-> U(30)],
   science   |-> [amount |-> 0, rate |-> 0, capacity |-> U(25)],
   energy    |-> [amount |-> 0, rate |-> 0, capacity |-> U(20)],
   execution |-> [amount |-> 0, rate |-> 0, capacity |-> U(10)]]

RECIPES ==
  [storage_chest    |-> [id |-> "storage_chest", cost |-> [wood |-> -U(10)],
                         craftTime |-> 60, capacityBoost |-> U(10), requiredStage |-> 0],
   reinforced_vault |-> [id |-> "reinforced_vault", cost |-> [wood |-> -U(20), stone |-> -U(15)],
                         craftTime |-> 120, capacityBoost |-> U(25), requiredStage |-> 2]]
RecipeId == DOMAIN RECIPES

Tool(id, cost, time, type, res, bonus, cdr, stage) ==
  [id |-> id, cost |-> cost, craftTime |-> time, toolType |-> type,
   bonusResource |-> res, harvestBonus |-> U(bonus), cooldownReduction |-> cdr,
   requiredStage |-> stage]

TOOL_RECIPES ==
  [wooden_saw        |-> Tool("wooden_saw", [wood |-> -U(5)], 30, "saw", "wood", 1, 5, 0),
   stone_saw         |-> Tool("stone_saw", [wood |-> -U(8), stone |-> -U(6)], 45, "saw", "wood", 2, 8, 1),
   celestial_saw     |-> Tool("celestial_saw", [wood |-> -U(12), energy |-> -U(8)], 60, "saw", "wood", 3, 12, 2),
   alloy_saw         |-> Tool("alloy_saw", [wood |-> -U(15), stone |-> -U(10), energy |-> -U(5)], 90, "saw", "wood", 5, 15, 3),
   wooden_pickaxe    |-> Tool("wooden_pickaxe", [wood |-> -U(6)], 30, "pickaxe", "stone", 1, 5, 0),
   stone_pickaxe     |-> Tool("stone_pickaxe", [wood |-> -U(5), stone |-> -U(8)], 45, "pickaxe", "stone", 2, 8, 1),
   celestial_pickaxe |-> Tool("celestial_pickaxe", [wood |-> -U(8), stone |-> -U(10), energy |-> -U(6)], 60, "pickaxe", "stone", 4, 12, 2),
   alloy_pickaxe     |-> Tool("alloy_pickaxe", [wood |-> -U(10), stone |-> -U(15), energy |-> -U(8)], 90, "pickaxe", "stone", 6, 15, 3),
   wooden_shears     |-> Tool("wooden_shears", [wood |-> -U(4)], 25, "shears", "sunleaf", 2, 5, 0),
   stone_shears      |-> Tool("stone_shears", [wood |-> -U(6), stone |-> -U(5)], 40, "shears", "sunleaf", 4, 8, 1),
   celestial_shears  |-> Tool("celestial_shears", [wood |-> -U(8), stone |-> -U(6), energy |-> -U(5)], 55, "shears", "sunleaf", 6, 12, 2),
   alloy_shears      |-> Tool("alloy_shears", [wood |-> -U(10), stone |-> -U(8), energy |-> -U(6)], 80, "shears", "sunleaf", 8, 15, 3)]
ToolId == DOMAIN TOOL_RECIPES
ToolType == {"saw", "pickaxe", "shears"}

FACILITIES ==
  [cabin     |-> [id |-> "cabin", cost |-> [wood |-> -U(20)], capacity |-> 2, requiredStage |-> 0],
   city_hall |-> [id |-> "city_hall", cost |-> [sunleaf |-> -U(40), wood |-> -U(10)],
                  capacity |-> 0, requiredStage |-> 0]]
FacilityIds == <<"cabin", "city_hall">>
FacilityId == DOMAIN FACILITIES
INITIAL_FACILITY_COUNTS == [f \in FacilityId |-> 0]

\* productionBoost and rate deltas are in tenths.
DISTRICTS ==
  [terraced_fields    |-> [requiredStage |-> 0, expansionCost |-> [sunleaf |-> -U(10), wood |-> -U(5)],
                           productionBoost |-> [sunleaf |-> 5]],
   lumber_groves      |-> [requiredStage |-> 0, expansionCost |-> [sunleaf |-> -U(30), wood |-> -U(10)],
                           productionBoost |-> [wood |-> 15]],
   aurora_forge       |-> [requiredStage |-> 1, expansionCost |-> [wood |-> -U(8), stone |-> -U(6)],
                           productionBoost |-> [stone |-> 3]],
   moonwater_archives |-> [requiredStage |-> 2, expansionCost |-> [stone |-> -U(10), science |-> -U(4)],
                           productionBoost |-> [science |-> 2]],
   sky_harbor         |-> [requiredStage |-> 3, expansionCost |-> [wood |-> -U(12), energy |-> -U(6)],
                           productionBoost |-> [energy |-> 4]]]
DistrictId == DOMAIN DISTRICTS
INITIAL_DISTRICTS == [d \in DistrictId |-> 0]

ACTIONS_LIST ==
  [forage_sunleaf     |-> [id |-> "forage_sunleaf", duration |-> 300, delta |-> [execution |-> -U(5)],
                           rateDelta |-> [sunleaf |-> 2], capacityDelta |-> NoDelta, requiredStage |-> 0],
   reinforce_trusses  |-> [id |-> "reinforce_trusses", duration |-> 0, delta |-> [execution |-> -U(3)],
                           rateDelta |-> NoDelta, capacityDelta |-> [wood |-> U(120)], requiredStage |-> 2],
   archive_colloquium |-> [id |-> "archive_colloquium", duration |-> 0,
                           delta |-> [execution |-> -U(2), science |-> U(24)],
                           rateDelta |-> [science |-> 16], capacityDelta |-> NoDelta, requiredStage |-> 1],
   ignite_furnaces    |-> [id |-> "ignite_furnaces", duration |-> 0,
                           delta |-> [execution |-> -U(3), stone |-> U(28)],
                           rateDelta |-> [stone |-> 18], capacityDelta |-> NoDelta, requiredStage |-> 3]]
ActionId == DOMAIN ACTIONS_LIST

MANUAL_HARVEST_REWARDS ==
  [sunleaf |-> U(3), wood |-> U(1), stone |-> U(2), science |-> U(1),
   energy |-> U(1), execution |-> T(5)]
MANUAL_HARVEST_COOLDOWN_SECONDS == 30
MIN_HARVEST_COOLDOWN == 5
SKILL_EXP_PER_HARVEST == 10

PHASES_LENGTH == 4
PHASE_INTERVAL_SECONDS == 5
DAYS_PER_SEASON == 91
DAYS_PER_YEAR == 365
SUNLEAF_SEASON_MULTIPLIERS == <<12, 12, 8, 5>>
WAGE_PER_TENANT_PER_DAY == 5
LOG_LIMIT == 6

\* RESOURCE_UNLOCK_DATA: stage = -1 stands for `stage: null`.
RESOURCE_UNLOCK_DATA ==
  [sunleaf   |-> [stage |-> 0, cost |-> NoDelta],
   wood      |-> [stage |-> -1, cost |-> [sunleaf |-> -U(40)]],
   stone     |-> [stage |-> 1, cost |-> NoDelta],
   science   |-> [stage |-> 1, cost |-> NoDelta],
   energy    |-> [stage |-> 2, cost |-> NoDelta],
   execution |-> [stage |-> -1, cost |-> [wood |-> -U(30)]]]

Goal(res, target, metric) == [resource |-> res, target |-> U(target), metric |-> metric]
TUTORIAL_STAGES ==
  <<[goals |-> <<Goal("sunleaf", 20, "amount")>>],
    [goals |-> <<Goal("stone", 30, "amount"), Goal("science", 5, "amount")>>],
    [goals |-> <<Goal("energy", 12, "amount"), Goal("wood", 100, "capacity")>>],
    [goals |-> <<>>]>>
NumStages == Len(TUTORIAL_STAGES)

StageTrig(n) == [type |-> "stage", stage |-> n, resource |-> "", amount |-> 0, label |-> ""]
ResTrig(r, a) == [type |-> "resource", stage |-> 0, resource |-> r, amount |-> U(a), label |-> ""]
MileTrig(l) == [type |-> "milestone", stage |-> 0, resource |-> "", amount |-> 0, label |-> l]
PurchTrig(i) == [type |-> "purchase", stage |-> 0, resource |-> "", amount |-> 0, label |-> i]
STORY_CHAPTERS ==
  <<[id |-> "chapter_1", trigger |-> StageTrig(0)],
    [id |-> "chapter_2", trigger |-> ResTrig("sunleaf", 80)],
    [id |-> "chapter_3", trigger |-> ResTrig("wood", 15)],
    [id |-> "chapter_4", trigger |-> ResTrig("stone", 10)],
    [id |-> "chapter_5", trigger |-> ResTrig("wood", 150)],
    [id |-> "chapter_6", trigger |-> MileTrig("store-preview-opened")],
    [id |-> "chapter_7", trigger |-> StageTrig(2)],
    [id |-> "chapter_8", trigger |-> PurchTrig("market-charter")],
    [id |-> "chapter_9", trigger |-> StageTrig(3)],
    [id |-> "chapter_10", trigger |-> MileTrig("all-chapters-complete")]>>
NumChapters == Len(STORY_CHAPTERS)
initialChapterId == STORY_CHAPTERS[1].id

INTRO_DIALOGUE_LENGTH == 7
RECRUIT_BATCH == 5
RECRUIT_COOLDOWN_SECONDS == 300
TENANT_TIMEOUT_SECONDS == 120
LOW_MORALE == 50
MORALE_PENALTY == 10
INITIAL_MORALE == 100

Entry(lang, kind, key, n) == [lang |-> lang, kind |-> kind, key |-> key, n |-> n]
localizedDefaults(lang) ==
  <<Entry(lang, "default", "council", 0), Entry(lang, "default", "scribes", 0),
    Entry(lang, "default", "harbor", 0)>>
ZeroCooldowns == [k \in ResourceKey |-> 0]
NoneActive == [k \in ResourceKey |-> FALSE]
ZeroWorkers == [k \in ResourceKey |-> 0]
NoTools == [t \in ToolType |-> "none"]


\* ------------------------------------------------------------ bounds
MaxTick == 3
DocTick == 54
MaxHarvestLevel == 2
MaxCountdown == 3

\* ------------------------------------------------------------- state
VARIABLES
  resources, tick, manualCooldowns, manualHarvestActive, log, stageIndex,
  showTutorial, nextStageRef, unlockedChapters, activeChapterId, milestones,
  completedPurchases, purchaseCounts, civilizationLevel, gameState,
  currentSaveName, showIntroDialogue, introIndex, districts, craftingRecipe,
  craftingProgress, pendingAllocation, equippedTools, facilityCounts,
  selectedFacilityId, tenantRecruitCooldown, pendingTenants, tenantTimeout,
  assignedTenants, tenantMorale, autoPayWages, lastPayDay, skills,
  resourceWorkers, manuallyUnlockedResources, activeBoosts, language,
  stageTimers, store, lastSaveName, dirty, lastOp

vars ==
  <<resources, tick, manualCooldowns, manualHarvestActive, log, stageIndex,
    showTutorial, nextStageRef, unlockedChapters, activeChapterId, milestones,
    completedPurchases, purchaseCounts, civilizationLevel, gameState,
    currentSaveName, showIntroDialogue, introIndex, districts, craftingRecipe,
    craftingProgress, pendingAllocation, equippedTools, facilityCounts,
    selectedFacilityId, tenantRecruitCooldown, pendingTenants, tenantTimeout,
    assignedTenants, tenantMorale, autoPayWages, lastPayDay, skills,
    resourceWorkers, manuallyUnlockedResources, activeBoosts, language,
    stageTimers, store, lastSaveName, dirty, lastOp>>

\* The rendered state as one record.
Cur ==
  [resources |-> resources, tick |-> tick, manualCooldowns |-> manualCooldowns,
   manualHarvestActive |-> manualHarvestActive, log |-> log,
   stageIndex |-> stageIndex, showTutorial |-> showTutorial,
   nextStageRef |-> nextStageRef, unlockedChapters |-> unlockedChapters,
   activeChapterId |-> activeChapterId, milestones |-> milestones,
   completedPurchases |-> completedPurchases, purchaseCounts |-> purchaseCounts,
   civilizationLevel |-> civilizationLevel, gameState |-> gameState,
   currentSaveName |-> currentSaveName, showIntroDialogue |-> showIntroDialogue,
   introIndex |-> introIndex, districts |-> districts,
   craftingRecipe |-> craftingRecipe, craftingProgress |-> craftingProgress,
   pendingAllocation |-> pendingAllocation, equippedTools |-> equippedTools,
   facilityCounts |-> facilityCounts, selectedFacilityId |-> selectedFacilityId,
   tenantRecruitCooldown |-> tenantRecruitCooldown,
   pendingTenants |-> pendingTenants, tenantTimeout |-> tenantTimeout,
   assignedTenants |-> assignedTenants, tenantMorale |-> tenantMorale,
   autoPayWages |-> autoPayWages, lastPayDay |-> lastPayDay, skills |-> skills,
   resourceWorkers |-> resourceWorkers,
   manuallyUnlockedResources |-> manuallyUnlockedResources,
   activeBoosts |-> activeBoosts, language |-> language,
   stageTimers |-> stageTimers, store |-> store, lastSaveName |-> lastSaveName,
   dirty |-> dirty]

Set(n) ==
  /\ resources' = n.resources
  /\ tick' = n.tick
  /\ manualCooldowns' = n.manualCooldowns
  /\ manualHarvestActive' = n.manualHarvestActive
  /\ log' = n.log
  /\ stageIndex' = n.stageIndex
  /\ showTutorial' = n.showTutorial
  /\ nextStageRef' = n.nextStageRef
  /\ unlockedChapters' = n.unlockedChapters
  /\ activeChapterId' = n.activeChapterId
  /\ milestones' = n.milestones
  /\ completedPurchases' = n.completedPurchases
  /\ purchaseCounts' = n.purchaseCounts
  /\ civilizationLevel' = n.civilizationLevel
  /\ gameState' = n.gameState
  /\ currentSaveName' = n.currentSaveName
  /\ showIntroDialogue' = n.showIntroDialogue
  /\ introIndex' = n.introIndex
  /\ districts' = n.districts
  /\ craftingRecipe' = n.craftingRecipe
  /\ craftingProgress' = n.craftingProgress
  /\ pendingAllocation' = n.pendingAllocation
  /\ equippedTools' = n.equippedTools
  /\ facilityCounts' = n.facilityCounts
  /\ selectedFacilityId' = n.selectedFacilityId
  /\ tenantRecruitCooldown' = n.tenantRecruitCooldown
  /\ pendingTenants' = n.pendingTenants
  /\ tenantTimeout' = n.tenantTimeout
  /\ assignedTenants' = n.assignedTenants
  /\ tenantMorale' = n.tenantMorale
  /\ autoPayWages' = n.autoPayWages
  /\ lastPayDay' = n.lastPayDay
  /\ skills' = n.skills
  /\ resourceWorkers' = n.resourceWorkers
  /\ manuallyUnlockedResources' = n.manuallyUnlockedResources
  /\ activeBoosts' = n.activeBoosts
  /\ language' = n.language
  /\ stageTimers' = n.stageTimers
  /\ store' = n.store
  /\ lastSaveName' = n.lastSaveName
  /\ dirty' = n.dirty

NoAllocation == [recipeId |-> "none", boost |-> 0]
NoSave == [version |-> 0]

\* ---------------------------------------------------- derived values
InSeq(x, s) == \E i \in 1..Len(s) : s[i] = x
\* Fault injection: the log keeps every entry.
Prepend_Unbounded(entry, lg) == <<entry>> \o lg
Prepend(entry, lg) == SubSeq(<<entry>> \o lg, 1, Min(LOG_LIMIT, Len(lg) + 1))

CycleOf(t) == t \div PHASES_LENGTH
DayOf(t) == CycleOf(t) + 1
SeasonIndexOf(t) == ((DayOf(t) - 1) % DAYS_PER_YEAR) \div DAYS_PER_SEASON
SeasonMultiplier(idx) ==
  IF idx + 1 \in DOMAIN SUNLEAF_SEASON_MULTIPLIERS
    THEN SUNLEAF_SEASON_MULTIPLIERS[idx + 1] ELSE 10

RECURSIVE SumOver(_, _)
SumOver(f, S) ==
  IF S = {} THEN 0
  ELSE LET x == CHOOSE y \in S : TRUE IN f[x] + SumOver(f, S \ {x})

passiveRates(ds) ==
  [k \in ResourceKey |->
     SumOver([d \in DistrictId |-> DeltaOf(DISTRICTS[d].productionBoost, k) * ds[d]],
             DistrictId)]

totalHousingCapacity(fc) ==
  SumOver([f \in FacilityId |-> fc[f] * FACILITIES[f].capacity], FacilityId)
availableHousing(s) == totalHousingCapacity(s.facilityCounts) - s.assignedTenants
hasCityHall(s) == s.facilityCounts["city_hall"] > 0
totalAssignedWorkers(rw) == SumOver(rw, ResourceKey)
idleWorkers(s) == s.assignedTenants - totalAssignedWorkers(s.resourceWorkers)

unlockedResource(s, k) ==
  \/ RESOURCE_UNLOCK_DATA[k].stage >= 0 /\ s.stageIndex >= RESOURCE_UNLOCK_DATA[k].stage
  \/ InSeq(k, s.manuallyUnlockedResources)

\* Cells (and derived values) that some effect lists as a dependency.
PrimDeps ==
  {"tick", "stageIndex", "selectedFacilityId", "lastPayDay", "assignedTenants",
   "autoPayWages", "language"}
PrimDiff(a, b) ==
  {c \in PrimDeps : a[c] # b[c]}
    \cup (IF DayOf(a.tick) # DayOf(b.tick) THEN {"day"} ELSE {})
    \cup (IF totalAssignedWorkers(a.resourceWorkers) # totalAssignedWorkers(b.resourceWorkers)
            THEN {"totalAssignedWorkers"} ELSE {})
\* The commit of a handler's state updates: what the next render sees changed.
Commit(before, after) == [after EXCEPT !.dirty = @ \cup PrimDiff(before, after)]
Touch(s, cells) == [s EXCEPT !.dirty = @ \cup cells]

\* ------------------------------------------------- resource ledger
\* Fault injection: the new amount is not limited to 0..capacity.
Limited_Unclamped(r, change) == r.amount + change

Limited(r, change) == Min(r.capacity, Max(0, r.amount + change))
TieKeys(list, delta) ==
  {k \in ResourceKey : DeltaOf(delta, k) # 0
                       /\ 2 * (Limited(list[k], DeltaOf(delta, k)) % Tenth) = Tenth}
Ties(list, delta) == [TieKeys(list, delta) -> BOOLEAN]

applyResourceDelta(list, delta, ups) ==
  [k \in ResourceKey |->
     IF DeltaOf(delta, k) = 0 THEN list[k]
     ELSE [list[k] EXCEPT !.amount =
             Round1(Limited(list[k], DeltaOf(delta, k)), k \in DOMAIN ups /\ ups[k])]]

\* Rates are kept in tenths, on which toFixed(1) changes nothing.
applyRateDelta(list, delta) ==
  [k \in ResourceKey |->
     IF DeltaOf(delta, k) = 0 THEN list[k]
     ELSE [list[k] EXCEPT !.rate = list[k].rate + DeltaOf(delta, k)]]

applyCapacityDelta(list, delta) ==
  [k \in ResourceKey |->
     IF DeltaOf(delta, k) = 0 THEN list[k]
     ELSE [list[k] EXCEPT !.capacity = Max(0, list[k].capacity + DeltaOf(delta, k))]]

\* canAffordExpansion / canAffordRecipe / canAffordToolRecipe / canAffordFacility
canAfford(list, cost) == \A k \in DOMAIN cost : list[k].amount + cost[k] >= 0

toolTypeMap ==
  [wood |-> "saw", stone |-> "pickaxe", sunleaf |-> "shears",
   science |-> "", energy |-> "", execution |-> ""]

\* Fault injection: the equipped tool's harvest bonus is dropped.
getEquippedToolBonus_NoBonus(s, resourceKey) ==
  [bonus |-> 0,
   cooldownReduction |->
     IF toolTypeMap[resourceKey] # "" /\ s.equippedTools[toolTypeMap[resourceKey]] \in ToolId
       THEN TOOL_RECIPES[s.equippedTools[toolTypeMap[resourceKey]]].cooldownReduction ELSE 0]

getEquippedToolBonus(s, resourceKey) ==
  LET toolType == toolTypeMap[resourceKey]
      none == [bonus |-> 0, cooldownReduction |-> 0]
  IN IF toolType = "" THEN none
     ELSE IF s.equippedTools[toolType] \notin ToolId THEN none
     ELSE LET tool == TOOL_RECIPES[s.equippedTools[toolType]]
          IN [bonus |-> IF tool.bonusResource = resourceKey THEN tool.harvestBonus ELSE 0,
              cooldownReduction |-> tool.cooldownReduction]

\* ------------------------------------------------------- handlers
\* Each handler maps the rendered state to the state after the updates it
\* queues; a rejected call returns the state unchanged.
AddLog(s, kind, key, n) == [s EXCEPT !.log = Prepend(Entry(s.language, kind, key, n), @)]

\* Fault injection: a skill at its maximum level keeps training.
harvest_NoLevelCap(s, resourceKey, ups) ==
  LET tb == getEquippedToolBonus(s, resourceKey)
      boostedReward == [k \in {resourceKey} |-> MANUAL_HARVEST_REWARDS[resourceKey] + tb.bonus]
      adjustedCooldown ==
        Max(MIN_HARVEST_COOLDOWN, MANUAL_HARVEST_COOLDOWN_SECONDS - tb.cooldownReduction)
      skillType == SKILL_RESOURCE_MAP[resourceKey]
      trains == skillType \in SkillType
      newExp == s.skills[skillType].experience + SKILL_EXP_PER_HARVEST
      requiredExp == s.skills[skillType].level * SKILL_EXP_PER_LEVEL
      s1 == [s EXCEPT !.resources = applyResourceDelta(@, boostedReward, ups),
                      !.manualCooldowns[resourceKey] = adjustedCooldown,
                      !.manualHarvestActive[resourceKey] = TRUE]
      s2 == IF ~trains THEN s1
            ELSE IF newExp >= requiredExp
              THEN [s1 EXCEPT !.skills[skillType].level = @ + 1,
                              !.skills[skillType].experience = newExp - requiredExp]
              ELSE [s1 EXCEPT !.skills[skillType].experience = newExp]
      s3 == AddLog(s2, "harvest", resourceKey, boostedReward[resourceKey])
      \* the level-up entry is queued while the skills updater runs, after
      \* the harvest entry
      s4 == IF trains /\ newExp >= requiredExp
              THEN AddLog(s3, "levelup", skillType, s.skills[skillType].level + 1)
              ELSE s3
  IN Touch(s4, {"resources"})

\* The body of handleManualHarvest past its cooldown check.
harvest(s, resourceKey, ups) ==
  LET tb == getEquippedToolBonus(s, resourceKey)
      boostedReward == [k \in {resourceKey} |-> MANUAL_HARVEST_REWARDS[resourceKey] + tb.bonus]
      adjustedCooldown ==
        Max(MIN_HARVEST_COOLDOWN, MANUAL_HARVEST_COOLDOWN_SECONDS - tb.cooldownReduction)
      skillType == SKILL_RESOURCE_MAP[resourceKey]
      trains == skillType \in SkillType /\ s.skills[skillType].level < s.skills[skillType].maxLevel
      newExp == s.skills[skillType].experience + SKILL_EXP_PER_HARVEST
      requiredExp == s.skills[skillType].level * SKILL_EXP_PER_LEVEL
      s1 == [s EXCEPT !.resources = applyResourceDelta(@, boostedReward, ups),
                      !.manualCooldowns[resourceKey] = adjustedCooldown,
                      !.manualHarvestActive[resourceKey] = TRUE]
      s2 == IF ~trains THEN s1
            ELSE IF newExp >= requiredExp
              THEN [s1 EXCEPT !.skills[skillType].level = @ + 1,
                              !.skills[skillType].experience = newExp - requiredExp]
              ELSE [s1 EXCEPT !.skills[skillType].experience = newExp]
      s3 == AddLog(s2, "harvest", resourceKey, boostedReward[resourceKey])
      \* the level-up entry is queued while the skills updater runs, after
      \* the harvest entry
      s4 == IF trains /\ newExp >= requiredExp
              THEN AddLog(s3, "levelup", skillType, s.skills[skillType].level + 1)
              ELSE s3
  IN Touch(s4, {"resources"})

\* Fault injection: the handler without its cooldown check.
handleManualHarvest_Unguarded(s, resourceKey, ups) == harvest(s, resourceKey, ups)

handleManualHarvest(s, resourceKey, ups) ==
  IF s.manualCooldowns[resourceKey] > 0 THEN s
  ELSE harvest(s, resourceKey, ups)

handleUnlockResource(s, resourceKey, ups) ==
  LET unlockInfo == RESOURCE_UNLOCK_DATA[resourceKey]
  IN IF DOMAIN unlockInfo.cost = {} THEN s
     ELSE IF ~canAfford(s.resources, unlockInfo.cost) THEN s
     ELSE Touch(AddLog([s EXCEPT !.resources = applyResourceDelta(@, unlockInfo.cost, ups),
                                 !.manuallyUnlockedResources = Append(@, resourceKey)],
                       "unlock", resourceKey, 0),
                {"resources"})

\* Fault injection: a district is expanded without asking for its cost.
handleExpand_CostIgnored(s, districtId, ups) ==
  LET district == DISTRICTS[districtId]
  IN Touch(AddLog([s EXCEPT !.resources =
                                applyRateDelta(applyResourceDelta(@, district.expansionCost, ups),
                                               district.productionBoost),
                              !.districts[districtId] = @ + 1],
                  "expand", districtId, 0),
           {"resources", "districts"})

handleExpand(s, districtId, ups) ==
  LET district == DISTRICTS[districtId]
  IN IF ~canAfford(s.resources, district.expansionCost) THEN s
     ELSE Touch(AddLog([s EXCEPT !.resources =
                                   applyRateDelta(applyResourceDelta(@, district.expansionCost, ups),
                                                  district.productionBoost),
                                 !.districts[districtId] = @ + 1],
                       "expand", districtId, 0),
                {"resources", "districts"})

\* Fault injection: a district is demolished whatever its building count.
handleDemolish_BelowZero(s, districtId) ==
  LET district == DISTRICTS[districtId]
      negativeBoost == [k \in DOMAIN district.productionBoost |-> -district.productionBoost[k]]
  IN Touch(AddLog([s EXCEPT !.resources = applyRateDelta(@, negativeBoost),
                              !.districts[districtId] = @ - 1],
                  "demolish", districtId, 0),
           {"resources", "districts"})

handleDemolish(s, districtId) ==
  LET district == DISTRICTS[districtId]
      negativeBoost == [k \in DOMAIN district.productionBoost |-> -district.productionBoost[k]]
  IN IF s.districts[districtId] <= 0 THEN s
     ELSE Touch(AddLog([s EXCEPT !.resources = applyRateDelta(@, negativeBoost),
                                 !.districts[districtId] = @ - 1],
                       "demolish", districtId, 0),
                {"resources", "districts"})

\* The updates both craft handlers queue once their checks pass.
beginCraft(s, recipe, ups) ==
  Touch(AddLog([s EXCEPT !.resources = applyResourceDelta(@, recipe.cost, ups),
                         !.craftingRecipe = recipe.id,
                         !.craftingProgress = 0],
               "craft-start", recipe.id, recipe.craftTime),
        {"resources"})

\* Fault injection: an item craft starts although the slot is taken.
handleStartCraft_SlotIgnored(s, recipeId, ups) ==
  IF recipeId \notin RecipeId \/ ~canAfford(s.resources, RECIPES[recipeId].cost) THEN s
  ELSE beginCraft(s, RECIPES[recipeId], ups)

handleStartCraft(s, recipeId, ups) ==
  IF recipeId \notin RecipeId THEN s
  ELSE LET recipe == RECIPES[recipeId]
       IN IF ~canAfford(s.resources, recipe.cost) \/ s.craftingRecipe # "none" THEN s
          ELSE beginCraft(s, recipe, ups)

handleStartToolCraft(s, recipeId, ups) ==
  IF recipeId \notin ToolId THEN s
  ELSE LET recipe == TOOL_RECIPES[recipeId]
       IN IF ~canAfford(s.resources, recipe.cost) \/ s.craftingRecipe # "none" THEN s
          ELSE beginCraft(s, recipe, ups)

handleBuildFacility(s, facilityId, ups) ==
  LET facility == FACILITIES[facilityId]
  IN IF s.stageIndex < facility.requiredStage THEN s
     ELSE IF ~canAfford(s.resources, facility.cost) THEN s
     ELSE Touch(AddLog([s EXCEPT !.resources = applyResourceDelta(@, facility.cost, ups),
                                 !.facilityCounts[facilityId] = @ + 1],
                       "build", facilityId, facility.capacity),
                {"resources"})

\* Fault injection: recruitment does not ask for a city hall.
handleRecruitTenants_NoHall(s) ==
  IF s.tenantRecruitCooldown > 0 THEN s
  ELSE AddLog([s EXCEPT !.pendingTenants = @ + RECRUIT_BATCH,
                        !.tenantRecruitCooldown = RECRUIT_COOLDOWN_SECONDS,
                        !.tenantTimeout = TENANT_TIMEOUT_SECONDS],
              "recruit", "", RECRUIT_BATCH)

handleRecruitTenants(s) ==
  IF ~hasCityHall(s) THEN s
  ELSE IF s.tenantRecruitCooldown > 0 THEN s
  ELSE AddLog([s EXCEPT !.pendingTenants = @ + RECRUIT_BATCH,
                        !.tenantRecruitCooldown = RECRUIT_COOLDOWN_SECONDS,
                        !.tenantTimeout = TENANT_TIMEOUT_SECONDS],
              "recruit", "", RECRUIT_BATCH)

\* Fault injection: a partial assignment leaves the acceptance timeout
\* running.
handleAssignTenants_KeepsTimeout(s) ==
  LET toAssign == Min(s.pendingTenants, availableHousing(s))
  IN IF s.pendingTenants <= 0 THEN s
     ELSE IF toAssign <= 0 THEN s
     ELSE Touch(AddLog([s EXCEPT !.pendingTenants = @ - toAssign,
                                 !.assignedTenants = @ + toAssign,
                                 !.tenantMorale = @ \o [i \in 1..toAssign |-> INITIAL_MORALE],
                                 !.tenantTimeout = IF toAssign < s.pendingTenants THEN @ ELSE 0],
                       "assign-tenants", "", toAssign),
                {"tenantMorale"})

handleAssignTenants(s) ==
  LET toAssign == Min(s.pendingTenants, availableHousing(s))
  IN IF s.pendingTenants <= 0 THEN s
     ELSE IF toAssign <= 0 THEN s
     ELSE Touch(AddLog([s EXCEPT !.pendingTenants = @ - toAssign,
                                 !.assignedTenants = @ + toAssign,
                                 !.tenantMorale = @ \o [i \in 1..toAssign |-> INITIAL_MORALE],
                                 !.tenantTimeout = 0],
                       "assign-tenants", "", toAssign),
                {"tenantMorale"})

handleAssignWorker(s, resourceKey) ==
  IF idleWorkers(s) <= 0 THEN s
  ELSE Touch(AddLog([s EXCEPT !.resourceWorkers[resourceKey] = @ + 1],
                    "assign-worker", resourceKey, 1),
             {"resourceWorkers"})

handleUnassignWorker(s, resourceKey) ==
  LET current == s.resourceWorkers[resourceKey]
  IN IF current <= 0 THEN s
     ELSE Touch(AddLog([s EXCEPT !.resourceWorkers[resourceKey] = current - 1],
                       "unassign-worker", resourceKey, 1),
                {"resourceWorkers"})

\* handlePayWages reads the rendered state r and queues its updates on q.
totalWage(r) == U(r.assignedTenants * WAGE_PER_TENANT_PER_DAY)
wagesPayable(r) == r.resources["sunleaf"].amount >= totalWage(r)
handlePayWages(r, q) ==
  IF ~wagesPayable(r)
    THEN [q EXCEPT !.log = Prepend(Entry(r.language, "wages-insufficient", "", r.assignedTenants), @)]
    ELSE Touch([q EXCEPT !.resources["sunleaf"].amount = @ - totalWage(r),
                         !.log = Prepend(Entry(r.language, "wages-paid", "", r.assignedTenants), @)],
               {"resources"})

handleAllocateCapacity(s, resourceKey) ==
  IF s.pendingAllocation = NoAllocation THEN s
  ELSE IF s.pendingAllocation.recipeId \notin RecipeId THEN s
  ELSE Touch([AddLog([s EXCEPT !.resources[resourceKey].capacity = @ + s.pendingAllocation.boost],
                     "allocate", resourceKey, s.pendingAllocation.boost)
                EXCEPT !.pendingAllocation = NoAllocation],
             {"resources"})

canExecute(s, action) ==
  \A k \in ResourceKey : DeltaOf(action.delta, k) >= 0
                         \/ s.resources[k].amount + DeltaOf(action.delta, k) >= 0

durationInTicks(action) ==
  (action.duration + PHASE_INTERVAL_SECONDS - 1) \div PHASE_INTERVAL_SECONDS

RemoveBoost(boosts, id) == SelectSeq(boosts, LAMBDA b : b.actionId # id)

handleAction(s, actionId, ups) ==
  LET action == ACTIONS_LIST[actionId]
      timed == action.duration # 0 /\ DOMAIN action.rateDelta # {}
      r1 == applyResourceDelta(s.resources, action.delta, ups)
      r2 == IF action.duration = 0 THEN applyRateDelta(r1, action.rateDelta) ELSE r1
      r3 == applyCapacityDelta(r2, action.capacityDelta)
      s1 == [s EXCEPT !.resources = r3,
                      !.activeBoosts =
                         IF timed
                           THEN Append(RemoveBoost(@, actionId),
                                       [actionId |-> actionId,
                                        remainingTicks |-> durationInTicks(action),
                                        totalDuration |-> durationInTicks(action),
                                        rateDelta |-> action.rateDelta])
                           ELSE @]
  IN IF ~canExecute(s, action) THEN s
     ELSE Touch(AddLog(s1, "directive", actionId, 0),
                {"resources"} \cup (IF timed THEN {"activeBoosts"} ELSE {}))

registerMilestone(s, label) ==
  IF InSeq(label, s.milestones) THEN s
  ELSE Touch([s EXCEPT !.milestones = Append(@, label)], {"milestones"})

handleDismissTutorial(s) ==
  LET s1 == [s EXCEPT !.showTutorial = FALSE]
  IN IF s.stageIndex > 0 THEN registerMilestone(s1, "tutorial-overlay-dismissed") ELSE s1

\* ------------------------------------------------- save, load, menu
SavedFields ==
  {"resources", "tick", "stageIndex", "showTutorial", "showIntroDialogue",
   "introIndex", "unlockedChapters", "activeChapterId", "milestones",
   "completedPurchases", "purchaseCounts", "civilizationLevel",
   "manualCooldowns", "manualHarvestActive", "log", "language", "districts",
   "craftingRecipe", "craftingProgress", "equippedTools", "facilityCounts",
   "selectedFacilityId", "tenantRecruitCooldown", "pendingTenants",
   "tenantTimeout", "assignedTenants", "tenantMorale", "autoPayWages",
   "lastPayDay", "skills", "resourceWorkers", "manuallyUnlockedResources"}

\* The payload of saveGame: the rendered values of the saved cells.
serialize(s) == [f \in SavedFields \cup {"version"} |-> IF f = "version" THEN 1 ELSE s[f]]

saveGame(s, saveName) ==
  [s EXCEPT !.store[saveName] = serialize(s), !.lastSaveName = saveName]

\* A stored text that JSON.parse rejects or that is not an object.
Garbled == [version |-> -1]
Loadable(doc) == doc # NoSave /\ doc # Garbled

\* A document is the function from its keys to their values; a key that is
\* omitted, or holds a value of another type, is outside its domain.
Opt(doc, f, default) == IF f \in DOMAIN doc THEN doc[f] ELSE default

\* loadGame on a parsed document.  A list of keyed entries is the function
\* from the keys it holds to their entries: resources and districts are
\* rebuilt from the catalog with the entries found by key, the skills are
\* taken as the document holds them.  tenantMorale is restored only when the
\* document holds a number for it, which saveGame never writes; language,
\* pendingAllocation, activeBoosts and the stage ref are not part of what
\* is restored.
loadGame(s, saveName) ==
  LET doc == s.store[saveName]
  IN Touch(
       [s EXCEPT !.resources =
                    [k \in ResourceKey |->
                       IF "resources" \in DOMAIN doc /\ k \in DOMAIN doc.resources
                         THEN doc.resources[k] ELSE INITIAL_RESOURCES[k]],
                 !.tick = Opt(doc, "tick", 0),
                 !.stageIndex = Opt(doc, "stageIndex", 0),
                 !.showTutorial = Opt(doc, "showTutorial", FALSE),
                 !.showIntroDialogue = Opt(doc, "showIntroDialogue", FALSE),
                 !.introIndex = Opt(doc, "introIndex", 0),
                 !.unlockedChapters = Opt(doc, "unlockedChapters", <<>>),
                 !.activeChapterId = Opt(doc, "activeChapterId", initialChapterId),
                 !.milestones = Opt(doc, "milestones", <<>>),
                 !.completedPurchases = Opt(doc, "completedPurchases", <<>>),
                 !.purchaseCounts = Opt(doc, "purchaseCounts", NoDelta),
                 !.civilizationLevel = Opt(doc, "civilizationLevel", 0),
                 !.manualCooldowns = Opt(doc, "manualCooldowns", @),
                 !.manualHarvestActive = Opt(doc, "manualHarvestActive", @),
                 !.log = IF "log" \in DOMAIN doc
                           THEN SubSeq(doc.log, 1, Min(LOG_LIMIT, Len(doc.log)))
                           ELSE localizedDefaults(s.language),
                 !.districts =
                    [d \in DistrictId |->
                       IF "districts" \in DOMAIN doc /\ d \in DOMAIN doc.districts
                         THEN doc.districts[d] ELSE INITIAL_DISTRICTS[d]],
                 !.craftingRecipe = Opt(doc, "craftingRecipe", "none"),
                 !.craftingProgress = Opt(doc, "craftingProgress", @),
                 !.equippedTools = Opt(doc, "equippedTools", @),
                 !.facilityCounts = Opt(doc, "facilityCounts", @),
                 !.selectedFacilityId =
                    IF "selectedFacilityId" \in DOMAIN doc /\ doc.selectedFacilityId # "none"
                      THEN doc.selectedFacilityId ELSE @,
                 !.tenantRecruitCooldown = Opt(doc, "tenantRecruitCooldown", @),
                 !.pendingTenants = Opt(doc, "pendingTenants", @),
                 !.tenantTimeout = Opt(doc, "tenantTimeout", @),
                 !.assignedTenants = Opt(doc, "assignedTenants", @),
                 !.autoPayWages = Opt(doc, "autoPayWages", @),
                 !.lastPayDay = Opt(doc, "lastPayDay", @),
                 !.skills = Opt(doc, "skills", INITIAL_SKILLS),
                 !.resourceWorkers = Opt(doc, "resourceWorkers", ZeroWorkers),
                 !.manuallyUnlockedResources = Opt(doc, "manuallyUnlockedResources", @),
                 !.currentSaveName = saveName,
                 !.lastSaveName = saveName],
       {"resources", "unlockedChapters", "milestones", "completedPurchases",
        "districts", "resourceWorkers"})

\* deserializeState on a parsed document: the counterpart of serializeState,
\* which writes the payload of saveGame.
deserializeState(s, doc) ==
  Touch(
    [s EXCEPT !.resources = Opt(doc, "resources", INITIAL_RESOURCES),
              !.tick = Opt(doc, "tick", 0),
              !.stageIndex = Opt(doc, "stageIndex", 0),
              !.showTutorial = Opt(doc, "showTutorial", FALSE),
              !.showIntroDialogue = Opt(doc, "showIntroDialogue", FALSE),
              !.introIndex = Opt(doc, "introIndex", 0),
              !.unlockedChapters = Opt(doc, "unlockedChapters", <<>>),
              !.activeChapterId = Opt(doc, "activeChapterId", initialChapterId),
              !.milestones = Opt(doc, "milestones", <<>>),
              !.completedPurchases = Opt(doc, "completedPurchases", <<>>),
              !.purchaseCounts = Opt(doc, "purchaseCounts", NoDelta),
              !.civilizationLevel = Opt(doc, "civilizationLevel", 0),
              !.manualCooldowns = Opt(doc, "manualCooldowns", @),
              !.manualHarvestActive = Opt(doc, "manualHarvestActive", @),
              !.log = IF "log" \in DOMAIN doc
                        THEN SubSeq(doc.log, 1, Min(LOG_LIMIT, Len(doc.log)))
                        ELSE localizedDefaults(s.language),
              !.districts = Opt(doc, "districts", INITIAL_DISTRICTS),
              !.craftingRecipe = Opt(doc, "craftingRecipe", "none"),
              !.craftingProgress = Opt(doc, "craftingProgress", @),
              !.equippedTools = Opt(doc, "equippedTools", @),
              !.facilityCounts = Opt(doc, "facilityCounts", INITIAL_FACILITY_COUNTS),
              !.selectedFacilityId = Opt(doc, "selectedFacilityId", "none"),
              !.tenantRecruitCooldown = Opt(doc, "tenantRecruitCooldown", 0),
              !.pendingTenants = Opt(doc, "pendingTenants", 0),
              !.tenantTimeout = Opt(doc, "tenantTimeout", 0),
              !.assignedTenants = Opt(doc, "assignedTenants", 0),
              !.tenantMorale = Opt(doc, "tenantMorale", <<>>),
              !.autoPayWages = Opt(doc, "autoPayWages", FALSE),
              !.lastPayDay = Opt(doc, "lastPayDay", 0),
              !.skills =
                 IF "skills" \in DOMAIN doc
                   THEN [t \in SkillType |->
                           [INITIAL_SKILLS[t] EXCEPT
                              !.level = Min(MAX_SKILL_LEVEL, doc.skills[t].level),
                              !.experience = doc.skills[t].experience]]
                   ELSE INITIAL_SKILLS,
              !.resourceWorkers = Opt(doc, "resourceWorkers", ZeroWorkers),
              !.manuallyUnlockedResources = Opt(doc, "manuallyUnlockedResources", @)],
    {"resources", "unlockedChapters", "milestones", "completedPurchases",
     "districts", "resourceWorkers", "tenantMorale"})

\* What handleLoadSelectedSave does without the result of loadGame.
handleLoadSelectedSave_Unchecked(s, saveName) ==
  [loadGame(s, saveName) EXCEPT !.gameState = "playing"]

handleLoadSelectedSave(s, saveName) ==
  IF ~Loadable(s.store[saveName]) THEN s
  ELSE [loadGame(s, saveName) EXCEPT !.gameState = "playing"]

handleContinueGame(s) ==
  IF s.lastSaveName = "" THEN s
  ELSE handleLoadSelectedSave(s, s.lastSaveName)

handleNewGame(s, newGameName) ==
  IF newGameName = "" THEN s
  ELSE
    Touch(
      [saveGame(s, newGameName) EXCEPT
         !.resources = INITIAL_RESOURCES,
         !.tick = 0,
         !.stageIndex = 0,
         !.showTutorial = FALSE,
         !.showIntroDialogue = TRUE,
         !.introIndex = 0,
         !.unlockedChapters = <<initialChapterId>>,
         !.activeChapterId = initialChapterId,
         !.milestones = <<>>,
         !.completedPurchases = <<>>,
         !.purchaseCounts = NoDelta,
         !.civilizationLevel = 0,
         !.manualCooldowns = ZeroCooldowns,
         !.manualHarvestActive = NoneActive,
         !.log = localizedDefaults(s.language),
         !.districts = INITIAL_DISTRICTS,
         !.craftingRecipe = "none",
         !.craftingProgress = 0,
         !.equippedTools = NoTools,
         !.facilityCounts = INITIAL_FACILITY_COUNTS,
         !.selectedFacilityId = "none",
         !.tenantRecruitCooldown = 0,
         !.pendingTenants = 0,
         !.tenantTimeout = 0,
         !.assignedTenants = 0,
         !.tenantMorale = <<>>,
         !.autoPayWages = FALSE,
         !.lastPayDay = 0,
         !.skills = INITIAL_SKILLS,
         !.resourceWorkers = ZeroWorkers,
         !.manuallyUnlockedResources = <<>>,
         !.currentSaveName = newGameName,
         !.gameState = "playing"],
      {"resources", "unlockedChapters", "milestones", "completedPurchases",
       "districts", "resourceWorkers", "tenantMorale"})

handleSaveAndExit(s) ==
  [(IF s.currentSaveName # "" THEN saveGame(s, s.currentSaveName) ELSE s)
     EXCEPT !.gameState = "main-menu"]

\* ---------------------------------------------------------- effects
\* Each passive effect reads its closure from the rendered state r and
\* applies its updates to the queued state q.
boostDecrEffect(r, q) ==
  IF Len(r.activeBoosts) = 0 THEN q
  ELSE Touch([q EXCEPT !.activeBoosts =
                SelectSeq([i \in 1..Len(@) |-> [@[i] EXCEPT !.remainingTicks = @ - 1]],
                          LAMBDA b : b.remainingTicks > 0)],
             {"activeBoosts"})

RECURSIVE SumBoost(_, _)
SumBoost(boosts, k) ==
  IF boosts = <<>> THEN 0
  ELSE DeltaOf(Head(boosts).rateDelta, k) + SumBoost(Tail(boosts), k)

boostRateEffect(r, q) ==
  Touch([q EXCEPT !.resources =
           [k \in ResourceKey |->
              LET baseRate == @[k].rate - SumBoost(r.activeBoosts, k)
              IN [@[k] EXCEPT !.rate = baseRate + SumBoost(r.activeBoosts, k)]]],
        {"resources"})

unlockedFacilities(s) ==
  SelectSeq(FacilityIds, LAMBDA f : s.stageIndex >= FACILITIES[f].requiredStage)

facilitySelectionEffect(r, q) ==
  IF Len(unlockedFacilities(r)) = 0 THEN [q EXCEPT !.selectedFacilityId = "none"]
  ELSE IF r.selectedFacilityId = "none" \/ ~InSeq(r.selectedFacilityId, unlockedFacilities(r))
    THEN [q EXCEPT !.selectedFacilityId = unlockedFacilities(r)[1]]
    ELSE q

isTriggerMet(s, trigger) ==
  CASE trigger.type = "stage" -> s.stageIndex >= trigger.stage
    [] trigger.type = "resource" -> s.resources[trigger.resource].amount >= trigger.amount
    [] trigger.type = "milestone" -> InSeq(trigger.label, s.milestones)
    [] trigger.type = "purchase" -> InSeq(trigger.label, s.completedPurchases)
    [] OTHER -> FALSE

newlyUnlocked(s) ==
  LET hit == SelectSeq(STORY_CHAPTERS,
                       LAMBDA c : ~InSeq(c.id, s.unlockedChapters) /\ isTriggerMet(s, c.trigger))
  IN [i \in 1..Len(hit) |-> hit[i].id]

\* Fault injection: the batch replaces the unlocked list.
chapterEffect_Replaces(r, q) ==
  LET new == newlyUnlocked(r)
  IN IF Len(new) = 0 THEN q
     ELSE Touch([q EXCEPT !.unlockedChapters = new,
                          !.activeChapterId = new[Len(new)],
                          !.log = Prepend(Entry(r.language, "chapter", new[Len(new)], 0), @)],
                {"unlockedChapters"})

\* Fault injection: the first chapter of the batch becomes the active one.
chapterEffect_FirstActive(r, q) ==
  LET new == newlyUnlocked(r)
  IN IF Len(new) = 0 THEN q
     ELSE Touch([q EXCEPT !.unlockedChapters = r.unlockedChapters \o new,
                          !.activeChapterId = new[1],
                          !.log = Prepend(Entry(r.language, "chapter", new[1], 0), @)],
                {"unlockedChapters"})

chapterEffect(r, q) ==
  LET new == newlyUnlocked(r)
  IN IF Len(new) = 0 THEN q
     ELSE Touch([q EXCEPT !.unlockedChapters = r.unlockedChapters \o new,
                          !.activeChapterId = new[Len(new)],
                          !.log = Prepend(Entry(r.language, "chapter", new[Len(new)], 0), @)],
                {"unlockedChapters"})

\* Gain of one phase in units of 1/400: (rate in tenths) / 10 / (20 / 5),
\* for sunleaf times the season multiplier (in tenths).
perPhaseGain(r, resource, k) ==
  LET totalRate == resource.rate * r.resourceWorkers[k] + passiveRates(r.districts)[k]
  IN IF k = "sunleaf" THEN totalRate * SeasonMultiplier(SeasonIndexOf(r.tick))
     ELSE totalRate * 10

produce(r, resource, k) ==
  IF perPhaseGain(r, resource, k) <= 0 THEN resource
  ELSE [resource EXCEPT !.amount =
          Min(resource.capacity, Max(0, resource.amount + perPhaseGain(r, resource, k)))]

productionEffect(r, q) ==
  IF r.tick = 0 THEN q
  ELSE Touch([q EXCEPT !.resources = [k \in ResourceKey |-> produce(r, @[k], k)]],
             {"resources"})

\* Fault injection: an automatic payment does not record the day it paid.
wageEffect_DayNotRecorded(r, q) ==
  LET currentDay == DayOf(r.tick)
      attempted == IF r.autoPayWages THEN handlePayWages(r, q) ELSE q
  IN IF currentDay = r.lastPayDay \/ r.assignedTenants = 0 THEN q
     ELSE IF r.autoPayWages /\ wagesPayable(r) THEN attempted
     ELSE IF currentDay > r.lastPayDay + 1
       THEN Touch([attempted EXCEPT
                     !.tenantMorale = [i \in 1..Len(@) |-> Max(0, @[i] - MORALE_PENALTY)],
                     !.log = Prepend(Entry(r.language, "wages-missed", "", 0), @),
                     !.lastPayDay = currentDay],
                  {"tenantMorale"})
     ELSE attempted

wageEffect(r, q) ==
  LET currentDay == DayOf(r.tick)
      attempted == IF r.autoPayWages THEN handlePayWages(r, q) ELSE q
  IN IF currentDay = r.lastPayDay \/ r.assignedTenants = 0 THEN q
     ELSE IF r.autoPayWages /\ wagesPayable(r)
       THEN [attempted EXCEPT !.lastPayDay = currentDay]
     ELSE IF currentDay > r.lastPayDay + 1
       THEN Touch([attempted EXCEPT
                     !.tenantMorale = [i \in 1..Len(@) |-> Max(0, @[i] - MORALE_PENALTY)],
                     !.log = Prepend(Entry(r.language, "wages-missed", "", 0), @),
                     !.lastPayDay = currentDay],
                  {"tenantMorale"})
     ELSE attempted

LowMorale(r) == {i \in 1..Len(r.tenantMorale) : r.tenantMorale[i] < LOW_MORALE}

RECURSIVE RemoveWorkers(_, _, _)
RemoveWorkers(workers, i, toRemove) ==
  IF i > Len(ResourceKeys) \/ toRemove <= 0 THEN workers
  ELSE LET key == ResourceKeys[i]
           remove == Min(workers[key], toRemove)
       IN RemoveWorkers([workers EXCEPT ![key] = @ - remove], i + 1, toRemove - remove)

\* leaves: the low-morale tenants for whom Math.random() < 0.5.
attritionEffect(r, q, leaves) ==
  LET n == Cardinality(leaves)
      stay == {i \in 1..Len(r.tenantMorale) : i \notin leaves}
      RECURSIVE Keep(_)
      Keep(i) == IF i > Len(r.tenantMorale) THEN <<>>
                 ELSE (IF i \in stay THEN <<r.tenantMorale[i]>> ELSE <<>>) \o Keep(i + 1)
      excessWorkers == totalAssignedWorkers(r.resourceWorkers) - (r.assignedTenants - n)
      q1 == [q EXCEPT !.tenantMorale = Keep(1),
                      !.assignedTenants = @ - n,
                      !.resourceWorkers =
                         IF excessWorkers > 0 THEN RemoveWorkers(@, 1, excessWorkers) ELSE @,
                      !.log = Prepend(Entry(r.language, "attrition", "", n), @)]
  IN IF r.assignedTenants = 0 \/ Len(r.tenantMorale) = 0 THEN q
     ELSE IF DayOf(r.tick) = r.lastPayDay THEN q
     ELSE IF n = 0 THEN q
     ELSE Touch(q1, {"tenantMorale"} \cup (IF excessWorkers > 0 THEN {"resourceWorkers"} ELSE {}))

goalsMet(s) ==
  \A i \in 1..Len(TUTORIAL_STAGES[s.stageIndex + 1].goals) :
    LET goal == TUTORIAL_STAGES[s.stageIndex + 1].goals[i]
        resource == s.resources[goal.resource]
        value == IF goal.metric = "capacity" THEN resource.capacity ELSE resource.amount
    IN value >= goal.target

\* The stage effect detects a satisfied stage and defers the advance.
stageDetects(r) ==
  /\ r.stageIndex + 1 \in DOMAIN TUTORIAL_STAGES
  /\ goalsMet(r)
  /\ r.stageIndex < NumStages - 1

\* Fault injection: the advance is detected but never scheduled.
stageEffect_NoTimer(r, q) ==
  IF stageDetects(r) /\ q.nextStageRef # r.stageIndex + 1
    THEN [q EXCEPT !.nextStageRef = r.stageIndex + 1,
                   !.log = Prepend(Entry(r.language, "stage", "", r.stageIndex + 1), @)]
    ELSE q

stageEffect(r, q) ==
  LET nextIndex == r.stageIndex + 1
      q1 == IF q.nextStageRef # nextIndex
              THEN [q EXCEPT !.nextStageRef = nextIndex,
                             !.log = Prepend(Entry(r.language, "stage", "", nextIndex), @)]
              ELSE q
  IN IF stageDetects(r)
       THEN [q1 EXCEPT !.stageTimers = Append(@, nextIndex)]
       ELSE q

cycleLogEffect(r, q) ==
  IF r.tick = 0 \/ r.tick % (PHASES_LENGTH * 2) # 0 THEN q
  ELSE [q EXCEPT !.log = Prepend(Entry(r.language, "cycle", "", r.tick % PHASES_LENGTH), @)]

\* Dependency lists of the effects, in declaration order.
BoostDecrDeps == {"tick"}
BoostRateDeps == {"activeBoosts"}
FacilityDeps == {"stageIndex", "selectedFacilityId"}
ChapterDeps ==
  {"stageIndex", "resources", "milestones", "completedPurchases", "unlockedChapters", "language"}
ProductionDeps == {"tick", "resourceWorkers", "districts"}
WageDeps == {"day", "lastPayDay", "assignedTenants", "autoPayWages", "resources", "language"}
AttritionDeps ==
  {"day", "tenantMorale", "assignedTenants", "totalAssignedWorkers", "lastPayDay", "language"}
StageDeps == {"resources", "stageIndex", "language"}
CycleLogDeps == {"tick", "language"}
AllDeps ==
  BoostDecrDeps \cup BoostRateDeps \cup FacilityDeps \cup ChapterDeps \cup ProductionDeps
    \cup WageDeps \cup AttritionDeps \cup StageDeps \cup CycleLogDeps

Fires(r, deps) == deps \cap r.dirty # {}
RunIf(cond, after, before) == IF cond THEN after ELSE before

\* One commit's passive effects, run in declaration order.
flushEffects(r, leaves) ==
  LET q0 == [r EXCEPT !.dirty = {}]
      q1 == RunIf(Fires(r, BoostDecrDeps), boostDecrEffect(r, q0), q0)
      q2 == RunIf(Fires(r, BoostRateDeps), boostRateEffect(r, q1), q1)
      q3 == RunIf(Fires(r, FacilityDeps), facilitySelectionEffect(r, q2), q2)
      q4 == RunIf(Fires(r, ChapterDeps), chapterEffect(r, q3), q3)
      q5 == RunIf(Fires(r, ProductionDeps), productionEffect(r, q4), q4)
      q6 == RunIf(Fires(r, WageDeps), wageEffect(r, q5), q5)
      q7 == RunIf(Fires(r, AttritionDeps), attritionEffect(r, q6, leaves), q6)
      q8 == RunIf(Fires(r, StageDeps), stageEffect(r, q7), q7)
      q9 == RunIf(Fires(r, CycleLogDeps), cycleLogEffect(r, q8), q8)
  IN q9

\* ----------------------------------------------------- timer callbacks
tickCallback(s) == [s EXCEPT !.tick = @ + 1]

cooldownCallback(r, q) ==
  LET activeKeys == {k \in ResourceKey : r.manualHarvestActive[k]}
      nextValue(k) == Max(0, q.manualCooldowns[k] - 1)
      cooledKeys == {k \in activeKeys : nextValue(k) <= 0}
  IN [q EXCEPT !.manualCooldowns =
                  [k \in ResourceKey |-> IF k \in activeKeys THEN nextValue(k) ELSE @[k]],
               !.manualHarvestActive =
                  [k \in ResourceKey |-> IF k \in cooledKeys THEN FALSE ELSE @[k]]]

recruitCooldownCallback(s) == [s EXCEPT !.tenantRecruitCooldown = Max(0, @ - 1)]

\* Fault injection: the pending tenants are discarded one second early.
tenantTimeoutCallback_Early(r, q) ==
  LET next == Max(0, q.tenantTimeout - 1)
  IN IF next <= 1 /\ r.pendingTenants > 0
       THEN [q EXCEPT !.tenantTimeout = next,
                      !.pendingTenants = 0,
                      !.log = Prepend(Entry(r.language, "timeout", "", r.pendingTenants), @)]
       ELSE [q EXCEPT !.tenantTimeout = next]

tenantTimeoutCallback(r, q) ==
  LET next == Max(0, q.tenantTimeout - 1)
  IN IF next = 0 /\ r.pendingTenants > 0
       THEN [q EXCEPT !.tenantTimeout = next,
                      !.pendingTenants = 0,
                      !.log = Prepend(Entry(r.language, "timeout", "", r.pendingTenants), @)]
       ELSE [q EXCEPT !.tenantTimeout = next]

craftTime(id) == IF id \in RecipeId THEN RECIPES[id].craftTime ELSE TOOL_RECIPES[id].craftTime

\* Fault injection: a completed tool is equipped alone, the tools of the
\* other slots are dropped.
craftCallback_OnlyTool(r, q) ==
  LET id == r.craftingRecipe
      next == q.craftingProgress + 1
      done == IF id \in RecipeId
                THEN [q EXCEPT !.pendingAllocation =
                                  [recipeId |-> id, boost |-> RECIPES[id].capacityBoost],
                               !.craftingRecipe = "none",
                               !.craftingProgress = 0,
                               !.log = Prepend(Entry(r.language, "craft-done", id, 0), @)]
                ELSE [q EXCEPT !.equippedTools = [NoTools EXCEPT ![TOOL_RECIPES[id].toolType] = id],
                               !.craftingRecipe = "none",
                               !.craftingProgress = 0,
                               !.log = Prepend(Entry(r.language, "tool-done", id, 0), @)]
  IN IF next >= craftTime(id) THEN done ELSE [q EXCEPT !.craftingProgress = next]

craftCallback(r, q) ==
  LET id == r.craftingRecipe
      next == q.craftingProgress + 1
      done == IF id \in RecipeId
                THEN [q EXCEPT !.pendingAllocation =
                                  [recipeId |-> id, boost |-> RECIPES[id].capacityBoost],
                               !.craftingRecipe = "none",
                               !.craftingProgress = 0,
                               !.log = Prepend(Entry(r.language, "craft-done", id, 0), @)]
                ELSE [q EXCEPT !.equippedTools[TOOL_RECIPES[id].toolType] = id,
                               !.craftingRecipe = "none",
                               !.craftingProgress = 0,
                               !.log = Prepend(Entry(r.language, "tool-done", id, 0), @)]
  IN IF next >= craftTime(id) THEN done ELSE [q EXCEPT !.craftingProgress = next]

stageTimerCallback(s) ==
  [s EXCEPT !.stageIndex = Head(s.stageTimers),
            !.showTutorial = TRUE,
            !.stageTimers = Tail(@)]

\* ------------------------------------------------------------ actions
Start(n) ==
  /\ resources = n.resources
  /\ tick = n.tick
  /\ manualCooldowns = n.manualCooldowns
  /\ manualHarvestActive = n.manualHarvestActive
  /\ log = n.log
  /\ stageIndex = n.stageIndex
  /\ showTutorial = n.showTutorial
  /\ nextStageRef = n.nextStageRef
  /\ unlockedChapters = n.unlockedChapters
  /\ activeChapterId = n.activeChapterId
  /\ milestones = n.milestones
  /\ completedPurchases = n.completedPurchases
  /\ purchaseCounts = n.purchaseCounts
  /\ civilizationLevel = n.civilizationLevel
  /\ gameState = n.gameState
  /\ currentSaveName = n.currentSaveName
  /\ showIntroDialogue = n.showIntroDialogue
  /\ introIndex = n.introIndex
  /\ districts = n.districts
  /\ craftingRecipe = n.craftingRecipe
  /\ craftingProgress = n.craftingProgress
  /\ pendingAllocation = n.pendingAllocation
  /\ equippedTools = n.equippedTools
  /\ facilityCounts = n.facilityCounts
  /\ selectedFacilityId = n.selectedFacilityId
  /\ tenantRecruitCooldown = n.tenantRecruitCooldown
  /\ pendingTenants = n.pendingTenants
  /\ tenantTimeout = n.tenantTimeout
  /\ assignedTenants = n.assignedTenants
  /\ tenantMorale = n.tenantMorale
  /\ autoPayWages = n.autoPayWages
  /\ lastPayDay = n.lastPayDay
  /\ skills = n.skills
  /\ resourceWorkers = n.resourceWorkers
  /\ manuallyUnlockedResources = n.manuallyUnlockedResources
  /\ activeBoosts = n.activeBoosts
  /\ language = n.language
  /\ stageTimers = n.stageTimers
  /\ store = n.store
  /\ lastSaveName = n.lastSaveName
  /\ dirty = n.dirty

\* lastOp records which operation produced the current state (history only).
Done(n, op, arg, k) ==
  /\ Set(Commit(Cur, n))
  /\ lastOp' = [op |-> op, arg |-> arg, n |-> k]

Idle == dirty = {}
Playing == Idle /\ gameState = "playing"

harvestReward(s, k) ==
  [x \in {k} |-> MANUAL_HARVEST_REWARDS[k] + getEquippedToolBonus(s, k).bonus]

\* Harvesting is followed while the trained skill is at most MaxHarvestLevel.
HarvestModelled(k) ==
  SKILL_RESOURCE_MAP[k] \in SkillType => skills[SKILL_RESOURCE_MAP[k]].level <= MaxHarvestLevel

ManualHarvest(k) ==
  /\ Playing
  /\ unlockedResource(Cur, k)
  /\ HarvestModelled(k)
  /\ \E ups \in Ties(resources, harvestReward(Cur, k)) :
       Done(handleManualHarvest(Cur, k, ups), "harvest", k, manualCooldowns[k])

UnlockResource(k) ==
  /\ Playing
  /\ ~unlockedResource(Cur, k)
  /\ DOMAIN RESOURCE_UNLOCK_DATA[k].cost # {}
  /\ \E ups \in Ties(resources, RESOURCE_UNLOCK_DATA[k].cost) :
       Done(handleUnlockResource(Cur, k, ups), "unlock", k, 0)

Expand(d) ==
  /\ Playing
  /\ stageIndex >= DISTRICTS[d].requiredStage
  /\ \E ups \in Ties(resources, DISTRICTS[d].expansionCost) :
       Done(handleExpand(Cur, d, ups), "expand", d, 0)

Demolish(d) ==
  /\ Playing
  /\ stageIndex >= DISTRICTS[d].requiredStage
  /\ Done(handleDemolish(Cur, d), "demolish", d, 0)

StartCraft(id) ==
  /\ Playing
  /\ stageIndex >= RECIPES[id].requiredStage
  /\ \E ups \in Ties(resources, RECIPES[id].cost) :
       Done(handleStartCraft(Cur, id, ups), "craft", id, craftingProgress)

StartToolCraft(id) ==
  /\ Playing
  /\ stageIndex >= TOOL_RECIPES[id].requiredStage
  /\ \E ups \in Ties(resources, TOOL_RECIPES[id].cost) :
       Done(handleStartToolCraft(Cur, id, ups), "toolcraft", id, craftingProgress)

BuildFacility(f) ==
  /\ Playing
  /\ \E ups \in Ties(resources, FACILITIES[f].cost) :
       Done(handleBuildFacility(Cur, f, ups), "build", f, 0)

RecruitTenants == Playing /\ Done(handleRecruitTenants(Cur), "recruit", "", 0)
AssignTenants == Playing /\ Done(handleAssignTenants(Cur), "assign-tenants", "", 0)
AssignWorker(k) == Playing /\ Done(handleAssignWorker(Cur, k), "assign-worker", k, 0)
UnassignWorker(k) == Playing /\ Done(handleUnassignWorker(Cur, k), "unassign-worker", k, 0)

PayWages ==
  /\ Playing
  /\ assignedTenants # 0
  /\ Done(handlePayWages(Cur, Cur), "pay", "", 0)

SetAutoPayWages(b) ==
  Playing /\ Done([Cur EXCEPT !.autoPayWages = b], "auto-pay", "", 0)

AllocateCapacity(k) ==
  /\ Playing
  /\ pendingAllocation # NoAllocation
  /\ unlockedResource(Cur, k)
  /\ Done(handleAllocateCapacity(Cur, k), "allocate", k, 0)

DismissAllocation ==
  /\ Playing
  /\ pendingAllocation # NoAllocation
  /\ Done([Cur EXCEPT !.pendingAllocation = NoAllocation], "dismiss-allocation", "", 0)

Directive(a) ==
  /\ Playing
  /\ stageIndex >= ACTIONS_LIST[a].requiredStage
  /\ \E ups \in Ties(resources, ACTIONS_LIST[a].delta) :
       Done(handleAction(Cur, a, ups), "directive", a, 0)

DismissTutorial ==
  Playing /\ showTutorial /\ Done(handleDismissTutorial(Cur), "dismiss-tutorial", "", 0)
OpenTutorial ==
  Playing /\ ~showTutorial /\ Done([Cur EXCEPT !.showTutorial = TRUE], "open-tutorial", "", 0)

IntroContinue ==
  /\ Playing /\ showIntroDialogue
  /\ Done(IF introIndex < INTRO_DIALOGUE_LENGTH - 1
            THEN [Cur EXCEPT !.introIndex = @ + 1]
            ELSE [Cur EXCEPT !.showIntroDialogue = FALSE, !.showTutorial = TRUE],
          "intro-continue", "", 0)
IntroSkip ==
  /\ Playing /\ showIntroDialogue
  /\ Done([Cur EXCEPT !.showIntroDialogue = FALSE, !.showTutorial = TRUE], "intro-skip", "", 0)

SetLanguage(l) == Idle /\ Done([Cur EXCEPT !.language = l], "language", l, 0)

Pause == Playing /\ Done([Cur EXCEPT !.gameState = "paused"], "pause", "", 0)
Resume ==
  Idle /\ gameState = "paused" /\ Done([Cur EXCEPT !.gameState = "playing"], "resume", "", 0)
SaveAndExit ==
  Idle /\ gameState = "paused" /\ Done(handleSaveAndExit(Cur), "save-exit", "", 0)

NewGame(name) ==
  Idle /\ gameState = "main-menu" /\ Done(handleNewGame(Cur, name), "new-game", name, 0)
LoadSelectedSave(name) ==
  Idle /\ gameState = "main-menu" /\ Done(handleLoadSelectedSave(Cur, name), "load", name, 0)
ContinueGame ==
  Idle /\ gameState = "main-menu" /\ Done(handleContinueGame(Cur), "load", lastSaveName, 0)

\* timers
\* The clock is followed for MaxTick ticks from a new game and for MaxTick
\* ticks from the tick the saved sessions were written at.
TickModelled(t) == t < MaxTick \/ (DocTick <= t /\ t < DocTick + MaxTick)
\* Fault injection: the tick interval runs whatever the intro dialogue shows.
Tick_DuringIntro ==
  Idle /\ TickModelled(tick) /\ Done(tickCallback(Cur), "tick", "", 0)
Tick ==
  Idle /\ ~showIntroDialogue /\ TickModelled(tick) /\ Done(tickCallback(Cur), "tick", "", 0)
CooldownTick ==
  /\ Idle
  /\ \E k \in ResourceKey : manualHarvestActive[k]
  /\ Done(cooldownCallback(Cur, Cur), "cooldown-tick", "", 0)
RecruitTick ==
  Idle /\ tenantRecruitCooldown > 0 /\ Done(recruitCooldownCallback(Cur), "recruit-tick", "", 0)
TimeoutTick ==
  /\ Idle /\ tenantTimeout > 0 /\ pendingTenants > 0
  /\ Done(tenantTimeoutCallback(Cur, Cur), "timeout-tick", "", 0)
CraftTick ==
  /\ Idle
  /\ craftingRecipe \in RecipeId \cup ToolId
  /\ craftingProgress < 100
  /\ Done(craftCallback(Cur, Cur), "craft-tick", craftingRecipe, 0)
StageTimerFire ==
  /\ Idle
  /\ stageTimers # <<>>
  /\ Done(stageTimerCallback(Cur), "stage-timer", "", Head(stageTimers))

\* The passive effects of the last commit; n records the stage the stage
\* effect scheduled an advance to (0 when it scheduled none).
FlushEffects ==
  /\ dirty # {}
  /\ \E leaves \in (IF Fires(Cur, AttritionDeps) THEN SUBSET LowMorale(Cur) ELSE {{}}) :
       Done(flushEffects(Cur, leaves), "flush", "",
            IF Fires(Cur, StageDeps) /\ stageDetects(Cur) THEN stageIndex + 1 ELSE 0)

\* ------------------------------------------------------ initial state
SaveNames == {"alpha", "beta", "gamma", "delta"}
EmptyStore == [n \in SaveNames |-> NoSave]

\* The component after its first render: every effect is still to run.
MountState(st, last) ==
  [resources |-> INITIAL_RESOURCES, tick |-> 0, manualCooldowns |-> ZeroCooldowns,
   manualHarvestActive |-> NoneActive, log |-> localizedDefaults("en"),
   stageIndex |-> 0, showTutorial |-> FALSE, nextStageRef |-> 0,
   unlockedChapters |-> <<initialChapterId>>, activeChapterId |-> initialChapterId,
   milestones |-> <<>>, completedPurchases |-> <<>>, purchaseCounts |-> NoDelta,
   civilizationLevel |-> 0, gameState |-> "main-menu", currentSaveName |-> "",
   showIntroDialogue |-> TRUE, introIndex |-> 0, districts |-> INITIAL_DISTRICTS,
   craftingRecipe |-> "none", craftingProgress |-> 0,
   pendingAllocation |-> NoAllocation, equippedTools |-> NoTools,
   facilityCounts |-> INITIAL_FACILITY_COUNTS, selectedFacilityId |-> "none",
   tenantRecruitCooldown |-> 0, pendingTenants |-> 0, tenantTimeout |-> 0,
   assignedTenants |-> 0, tenantMorale |-> <<>>, autoPayWages |-> FALSE,
   lastPayDay |-> 0, skills |-> INITIAL_SKILLS, resourceWorkers |-> ZeroWorkers,
   manuallyUnlockedResources |-> <<>>, activeBoosts |-> <<>>, language |-> "en",
   stageTimers |-> <<>>, store |-> st, lastSaveName |-> last, dirty |-> AllDeps]

Mounted == [op |-> "mount", arg |-> "", n |-> 0]

Init == Start(MountState(EmptyStore, "")) /\ lastOp = Mounted

Next ==
  \/ FlushEffects
  \/ \E n \in SaveNames : NewGame(n)
  \/ \E n \in SaveNames : LoadSelectedSave(n)
  \/ ContinueGame
  \/ Pause
  \/ Resume
  \/ SaveAndExit
  \/ IntroContinue
  \/ IntroSkip
  \/ DismissTutorial
  \/ OpenTutorial
  \/ \E l \in {"en", "zh"} : SetLanguage(l)
  \/ \E k \in ResourceKey : ManualHarvest(k)
  \/ \E k \in ResourceKey : UnlockResource(k)
  \/ \E d \in DistrictId : Expand(d)
  \/ \E d \in DistrictId : Demolish(d)
  \/ \E id \in RecipeId : StartCraft(id)
  \/ \E id \in ToolId : StartToolCraft(id)
  \/ \E f \in FacilityId : BuildFacility(f)
  \/ RecruitTenants
  \/ AssignTenants
  \/ \E k \in ResourceKey : AssignWorker(k)
  \/ \E k \in ResourceKey : UnassignWorker(k)
  \/ PayWages
  \/ \E b \in BOOLEAN : SetAutoPayWages(b)
  \/ \E k \in ResourceKey : AllocateCapacity(k)
  \/ DismissAllocation
  \/ \E a \in ActionId : Directive(a)
  \/ Tick
  \/ CooldownTick
  \/ RecruitTick
  \/ TimeoutTick
  \/ CraftTick
  \/ StageTimerFire

Spec == Init /\ [][Next]_vars

\* ------------------------------------------------- saved sessions
\* Documents found in the store at start-up, each the save of a session
\* played earlier.
Amounts(list, amounts) ==
  [k \in ResourceKey |-> [list[k] EXCEPT !.amount = DeltaOf(amounts, k)]]

\* Stage 1, wood unlocked, one terraced field, wooden shears equipped.
HarvestSession ==
  [MountState(EmptyStore, "") EXCEPT
     !.resources = applyRateDelta(Amounts(@, [sunleaf |-> U(12), wood |-> T(386)]),
                                  DISTRICTS["terraced_fields"].productionBoost),
     !.tick = DocTick,
     !.stageIndex = 1,
     !.nextStageRef = 1,
     !.showIntroDialogue = FALSE,
     !.unlockedChapters = <<"chapter_1", "chapter_3">>,
     !.activeChapterId = "chapter_3",
     !.milestones = <<"tutorial-overlay-dismissed">>,
     !.manuallyUnlockedResources = <<"wood">>,
     !.districts["terraced_fields"] = 1,
     !.equippedTools["shears"] = "wooden_shears",
     !.skills["gathering"] = [level |-> 2, experience |-> 150, maxLevel |-> MAX_SKILL_LEVEL],
     !.manualCooldowns["wood"] = 2,
     !.manualHarvestActive["wood"] = TRUE,
     !.selectedFacilityId = "cabin",
     !.log = <<Entry("en", "harvest", "wood", U(1)), Entry("en", "tool-done", "wooden_shears", 0),
               Entry("en", "craft-start", "wooden_shears", 25), Entry("en", "expand", "terraced_fields", 0),
               Entry("en", "harvest", "sunleaf", U(3)), Entry("en", "unlock", "wood", 0)>>,
     !.currentSaveName = "alpha",
     !.gameState = "paused",
     !.dirty = {}]

\* ------------------------------------------------ manual harvesting
HarvestKeys == {"sunleaf"}

InitHarvest ==
  /\ Start(MountState([EmptyStore EXCEPT !["alpha"] = serialize(HarvestSession)], "alpha"))
  /\ lastOp = Mounted

NextHarvest ==
  \/ FlushEffects
  \/ NewGame("delta")
  \/ LoadSelectedSave("alpha")
  \/ IntroSkip
  \/ \E k \in HarvestKeys : ManualHarvest(k)
  \/ CooldownTick
  \/ Tick

SpecHarvest == InitHarvest /\ [][NextHarvest]_vars

\* A call of handleManualHarvest(k), and whether its cooldown check passed.
HarvestCall(k) == lastOp'.op = "harvest" /\ lastOp'.arg = k
Accepted(k) == HarvestCall(k) /\ manualCooldowns[k] = 0
Rejected(k) == HarvestCall(k) /\ manualCooldowns[k] > 0

OthersKept(k) ==
  \A j \in ResourceKey \ {k} :
    /\ resources'[j].amount = resources[j].amount
    /\ manualCooldowns'[j] = manualCooldowns[j]

C8_Step ==
  \A k \in ResourceKey :
    /\ Rejected(k) =>
         /\ resources' = resources
         /\ manualCooldowns' = manualCooldowns
         /\ manualHarvestActive' = manualHarvestActive
         /\ skills' = skills
         /\ log' = log
    /\ Accepted(k) =>
         /\ manualCooldowns'[k] > 0
         /\ manualHarvestActive'[k]
         /\ \A j \in ResourceKey \ {k} :
              /\ manualCooldowns'[j] = manualCooldowns[j]
              /\ manualHarvestActive'[j] = manualHarvestActive[j]

\* C8: a manual harvest of r attempted while manualCooldowns[r] > 0 changes
\* no amount, cooldown, skill or log entry; a harvest that is accepted
\* starts the cooldown window of r and of no other resource.
C8_CooldownRejects == [][C8_Step]_vars

\* A harvest was attempted during the cooldown of its resource.
C8_Witness ==
  /\ lastOp.op = "harvest"
  /\ lastOp.n > 0
  /\ manualCooldowns[lastOp.arg] = lastOp.n
  /\ manualHarvestActive[lastOp.arg]

EquippedFor(k) ==
  IF toolTypeMap[k] # "" /\ equippedTools[toolTypeMap[k]] \in ToolId
    THEN {TOOL_RECIPES[equippedTools[toolTypeMap[k]]]} ELSE {}
ExpectedBonus(k) ==
  IF \E t \in EquippedFor(k) : t.bonusResource = k
    THEN (CHOOSE t \in EquippedFor(k) : TRUE).harvestBonus ELSE 0
ExpectedCooldown(k) ==
  IF EquippedFor(k) = {} THEN MANUAL_HARVEST_COOLDOWN_SECONDS
  ELSE Max(MIN_HARVEST_COOLDOWN,
           MANUAL_HARVEST_COOLDOWN_SECONDS
             - (CHOOSE t \in EquippedFor(k) : TRUE).cooldownReduction)
ClampedSum(k) ==
  Min(resources[k].capacity, resources[k].amount + MANUAL_HARVEST_REWARDS[k] + ExpectedBonus(k))
NearestTenth(x, y) == y % Tenth = 0 /\ 2 * (y - x) <= Tenth /\ 2 * (x - y) <= Tenth

\* The n-th accepted sunleaf harvest of a new game played without a tool
\* (each harvest trains gathering by SKILL_EXP_PER_HARVEST).
NthHarvest(n) ==
  /\ Accepted("sunleaf")
  /\ stageIndex = 0
  /\ equippedTools = NoTools
  /\ skills["gathering"].level = 1
  /\ skills'["gathering"].experience = n * SKILL_EXP_PER_HARVEST
FiveHarvestsGiveFifteen ==
  \A n \in 1..5 :
    NthHarvest(n) => /\ resources'["sunleaf"].amount = n * MANUAL_HARVEST_REWARDS["sunleaf"]
                     /\ manualHarvestActive'["sunleaf"]
                     /\ manualCooldowns'["sunleaf"] > 0
                     /\ n = 5 => resources'["sunleaf"].amount = U(15)

C9_ExactStep ==
  /\ \A k \in ResourceKey :
       Accepted(k) => /\ resources'[k].amount = ClampedSum(k)
                      /\ manualCooldowns'[k] = ExpectedCooldown(k)
                      /\ OthersKept(k)
  /\ FiveHarvestsGiveFifteen

C9_RoundedStep ==
  /\ \A k \in ResourceKey :
       Accepted(k) => /\ NearestTenth(ClampedSum(k), resources'[k].amount)
                      /\ manualCooldowns'[k] = ExpectedCooldown(k)
                      /\ OthersKept(k)
  /\ FiveHarvestsGiveFifteen

\* C9 as stated: an accepted harvest of r sets r's amount to
\* min(capacity, amount + reward + tool bonus) and r's cooldown to
\* max(5, 30 - cooldownReduction), keeping every other amount and cooldown;
\* five harvests into a new game without a tool leave 15 sunleaf.
C9_HarvestAddsExactly == [][C9_ExactStep]_vars

\* C9, amended: the new amount is min(capacity, amount + reward + bonus)
\* rounded to one decimal place; the rest as stated.
C9_HarvestAddsRounded == [][C9_RoundedStep]_vars

\* A harvest with the wooden shears met an amount carrying hundredths.
C9_Witness ==
  /\ lastOp.op = "harvest" /\ lastOp.arg = "sunleaf" /\ lastOp.n = 0
  /\ equippedTools["shears"] = "wooden_shears"
  /\ resources["sunleaf"].amount \in {T(171), T(172)}

\* ----------------------------------------------------------- crafting
CraftRecipes == {"storage_chest"}
CraftTools == {"wooden_saw"}

InitCraft ==
  /\ Start(MountState([EmptyStore EXCEPT !["alpha"] = serialize(HarvestSession)], "alpha"))
  /\ lastOp = Mounted

NextCraft ==
  \/ FlushEffects
  \/ LoadSelectedSave("alpha")
  \/ \E id \in CraftRecipes : StartCraft(id)
  \/ \E id \in CraftTools : StartToolCraft(id)
  \/ CraftTick
  \/ Tick

SpecCraft == InitCraft /\ [][NextCraft]_vars

CraftCall(id) == lastOp'.op \in {"craft", "toolcraft"} /\ lastOp'.arg = id
CostOf(id) == IF id \in RecipeId THEN RECIPES[id].cost ELSE TOOL_RECIPES[id].cost
Deducted(id) ==
  \A k \in ResourceKey :
    IF DeltaOf(CostOf(id), k) = 0 THEN resources'[k] = resources[k]
    ELSE /\ NearestTenth(resources[k].amount + DeltaOf(CostOf(id), k), resources'[k].amount)
         /\ resources'[k].capacity = resources[k].capacity
         /\ resources'[k].rate = resources[k].rate

C10_Step ==
  /\ \A id \in RecipeId \cup ToolId :
       /\ CraftCall(id) /\ craftingRecipe # "none" => Cur' = Cur
       /\ CraftCall(id) /\ craftingRecipe = "none" /\ craftingRecipe' = id => Deducted(id)
  /\ lastOp'.op = "craft-tick" => resources' = resources

\* C10: a craft (item or tool) started while craftingRecipe is set changes
\* nothing; a craft that starts deducts its cost (to the ledger's one
\* decimal) in that step, and no step of its progress, its completion
\* included, touches the resources.
C10_SingleCraftSlot == [][C10_Step]_vars

\* A tool craft was attempted while the storage chest was being crafted.
C10_Witness ==
  /\ lastOp.op = "toolcraft"
  /\ craftingRecipe = "storage_chest"
  /\ craftingProgress > 0
  /\ lastOp.n = craftingProgress

\* ------------------------------------------------------ story chapters
H(n) == n * (Unit \div 100)

\* Stage 1 with three producing districts; sunleaf, wood and stone each sit
\* just below a chapter threshold or a stage goal.
StorySession ==
  [HarvestSession EXCEPT
     !.resources =
        [k \in ResourceKey |->
           CASE k = "sunleaf" -> [amount |-> T(799), rate |-> 5, capacity |-> U(90)]
             [] k = "wood" -> [amount |-> T(148), rate |-> 15, capacity |-> U(40)]
             [] k = "stone" -> [amount |-> H(2995), rate |-> 3, capacity |-> U(30)]
             [] k = "science" -> [amount |-> U(5), rate |-> 0, capacity |-> U(25)]
             [] OTHER -> INITIAL_RESOURCES[k]],
     !.districts = [INITIAL_DISTRICTS EXCEPT !["terraced_fields"] = 1,
                                             !["lumber_groves"] = 1,
                                             !["aurora_forge"] = 1],
     !.unlockedChapters = <<"chapter_1", "chapter_4">>,
     !.activeChapterId = "chapter_4",
     !.manualCooldowns = ZeroCooldowns,
     !.manualHarvestActive = NoneActive,
     !.skills["gathering"] = [level |-> 2, experience |-> 170, maxLevel |-> MAX_SKILL_LEVEL],
     !.log = <<Entry("en", "allocate", "sunleaf", U(10)), Entry("en", "craft-done", "storage_chest", 0),
               Entry("en", "harvest", "stone", U(2)), Entry("en", "chapter", "chapter_4", 0),
               Entry("en", "expand", "aurora_forge", 0), Entry("en", "harvest", "wood", U(1))>>]

InitStory ==
  /\ Start(MountState([EmptyStore EXCEPT !["alpha"] = serialize(StorySession)], "alpha"))
  /\ lastOp = Mounted

NextStory ==
  \/ FlushEffects
  \/ LoadSelectedSave("alpha")
  \/ Tick
  \/ StageTimerFire
  \/ DismissTutorial
  \/ ManualHarvest("wood")
  \/ NewGame("delta")
  \/ IntroSkip

SpecStory == InitStory /\ [][NextStory]_vars

NoDuplicates(seq) == \A i, j \in 1..Len(seq) : seq[i] = seq[j] => i = j
\* old is a subsequence of new: its elements are all there, in their order.
KeepsOrder(old, new) ==
  \E pos \in [1..Len(old) -> 1..Len(new)] :
    /\ \A i \in 1..Len(old) : new[pos[i]] = old[i]
    /\ \A i, j \in 1..Len(old) : i < j => pos[i] < pos[j]

C6_Step ==
  /\ lastOp'.op \notin {"new-game", "load"} => KeepsOrder(unlockedChapters, unlockedChapters')
  /\ NoDuplicates(unlockedChapters')

\* C6: a step that is not a new game or a load keeps every unlocked chapter
\* id, in the same relative order, and no id is ever listed twice.
C6_ChaptersAppendOnly == [][C6_Step]_vars

\* The stage advance appended chapter 7 to an already grown list.
C6_Witness ==
  /\ lastOp.op = "flush"
  /\ Len(unlockedChapters) = 5
  /\ unlockedChapters[5] = "chapter_7"
  /\ stageIndex = 2

TriggerHolds(t) ==
  \/ t.type = "stage" /\ stageIndex >= t.stage
  \/ t.type = "resource" /\ resources[t.resource].amount >= t.amount
  \/ t.type = "milestone" /\ InSeq(t.label, milestones)
  \/ t.type = "purchase" /\ InSeq(t.label, completedPurchases)
RECURSIVE BatchFrom(_)
BatchFrom(i) ==
  IF i > NumChapters THEN <<>>
  ELSE (IF ~InSeq(STORY_CHAPTERS[i].id, unlockedChapters) /\ TriggerHolds(STORY_CHAPTERS[i].trigger)
          THEN <<STORY_CHAPTERS[i].id>> ELSE <<>>) \o BatchFrom(i + 1)
Evaluation == lastOp'.op = "flush" /\ Fires(Cur, ChapterDeps)

C7_Step ==
  Evaluation =>
    IF BatchFrom(1) = <<>>
      THEN unlockedChapters' = unlockedChapters /\ activeChapterId' = activeChapterId
      ELSE /\ unlockedChapters' = unlockedChapters \o BatchFrom(1)
           /\ activeChapterId' = BatchFrom(1)[Len(BatchFrom(1))]

\* C7: an evaluation of the chapter triggers appends exactly the chapters
\* not yet unlocked whose trigger holds, in catalog order, and makes the
\* last of them the active chapter; with none, both stay as they were.
C7_ChapterBatch == [][C7_Step]_vars

\* One evaluation unlocked chapters 2 and 3 together.
C7_Witness ==
  /\ lastOp.op = "flush"
  /\ unlockedChapters = <<"chapter_1", "chapter_4", "chapter_2", "chapter_3">>
  /\ activeChapterId = "chapter_3"

\* ------------------------------------------------------ tutorial stages
\* Stage 0, one harvest short of its goal.
EarlySession ==
  [MountState(EmptyStore, "") EXCEPT
     !.resources = Amounts(@, [sunleaf |-> U(18)]),
     !.tick = DocTick,
     !.showIntroDialogue = FALSE,
     !.milestones = <<"tutorial-overlay-dismissed">>,
     !.skills["gathering"] = [level |-> 1, experience |-> 60, maxLevel |-> MAX_SKILL_LEVEL],
     !.log = [i \in 1..LOG_LIMIT |-> Entry("en", "harvest", "sunleaf", U(3))],
     !.currentSaveName = "alpha",
     !.gameState = "paused",
     !.dirty = {}]

\* Stage 2, wood capacity at its goal, energy one harvest short of its goal.
LateSession ==
  [MountState(EmptyStore, "") EXCEPT
     !.resources = applyCapacityDelta(
                     Amounts(@, [sunleaf |-> U(7), stone |-> U(30), science |-> U(5), energy |-> U(11)]),
                     [wood |-> U(60)]),
     !.tick = DocTick,
     !.stageIndex = 2,
     !.nextStageRef = 2,
     !.showIntroDialogue = FALSE,
     !.unlockedChapters = <<"chapter_1", "chapter_3", "chapter_4", "chapter_7">>,
     !.activeChapterId = "chapter_7",
     !.milestones = <<"tutorial-overlay-dismissed">>,
     !.manuallyUnlockedResources = <<"wood">>,
     !.selectedFacilityId = "cabin",
     !.skills["gathering"] = [level |-> 1, experience |-> 80, maxLevel |-> MAX_SKILL_LEVEL],
     !.log = [i \in 1..LOG_LIMIT |-> Entry("en", "harvest", "energy", U(1))],
     !.currentSaveName = "beta",
     !.gameState = "paused",
     !.dirty = {}]

StageKeys == {"sunleaf", "energy"}
\* The player leaves a session through the menu at most once per save slot.
FirstExit ==
  /\ currentSaveName \in SaveNames
  /\ store[currentSaveName] \in {serialize(EarlySession), serialize(LateSession)}
ExitOnce == FirstExit /\ SaveAndExit

InitStage ==
  /\ Start(MountState([EmptyStore EXCEPT !["alpha"] = serialize(EarlySession),
                                         !["beta"] = serialize(LateSession)], "beta"))
  /\ lastOp = Mounted

NextStage ==
  \/ FlushEffects
  \/ \E n \in {"alpha", "beta"} : LoadSelectedSave(n)
  \/ NewGame("delta")
  \/ IntroSkip
  \/ Pause
  \/ ExitOnce
  \/ \E k \in StageKeys : ManualHarvest(k)
  \/ StageTimerFire

SpecStage == InitStage /\ [][NextStage]_vars

NextAdvance ==
  \/ FlushEffects
  \/ \E n \in {"alpha", "beta"} : LoadSelectedSave(n)
  \/ \E k \in StageKeys : ManualHarvest(k)
  \/ DismissTutorial
  \/ OpenTutorial
  \/ Pause
  \/ Resume
  \/ StageTimerFire

\* A deferred advance fires 750 ms after it was scheduled, whatever else
\* happens; the effects of a commit always run.
SpecStageFair ==
  InitStage /\ [][NextAdvance]_vars /\ SF_vars(StageTimerFire) /\ WF_vars(FlushEffects)

SessionSwitch == lastOp'.op \in {"new-game", "load"}

C2_Step ==
  ~SessionSwitch =>
    /\ stageIndex' >= stageIndex
    /\ stageIndex' # stageIndex => lastOp'.op = "stage-timer"

\* C2: a step that is not a new game or a load never lowers stageIndex, and
\* only the tutorial machine changes it.
C2_StageNeverDecreases == [][C2_Step]_vars

\* C3: at most one deferred stage advance is pending at any time.
C3_OnePendingAdvance == Len(stageTimers) <= 1

C4_Step ==
  /\ ~SessionSwitch /\ stageIndex' # stageIndex =>
       stageIndex < NumStages - 1 /\ stageIndex' = stageIndex + 1
  /\ lastOp'.op = "flush" /\ lastOp'.n # 0 =>
       /\ stageIndex < NumStages - 1
       /\ lastOp'.n = stageIndex + 1
       /\ \A i \in 1..Len(TUTORIAL_STAGES[stageIndex + 1].goals) :
            LET g == TUTORIAL_STAGES[stageIndex + 1].goals[i]
            IN IF g.metric = "capacity" THEN resources[g.resource].capacity >= g.target
               ELSE resources[g.resource].amount >= g.target
  /\ stageIndex' \in 0..(NumStages - 1)

\* C4: outside new game and load the stage only ever moves from i to i+1
\* with i < N-1, an advance is scheduled only when every goal of the active
\* stage is satisfied, and stageIndex stays within 0..N-1.
C4_OnlySuccessorTransitions == [][C4_Step]_vars

GoalCheckPasses(i) ==
  /\ stageIndex = i
  /\ Fires(Cur, StageDeps)
  /\ stageDetects(Cur)

\* C5: whenever the goal check runs at stage i < N-1 with every goal of the
\* stage satisfied, stageIndex eventually becomes i+1 with the tutorial
\* overlay shown.
C5_AdvanceEventuallyApplied ==
  \A i \in 0..(NumStages - 2) : GoalCheckPasses(i) ~> (stageIndex = i + 1 /\ showTutorial)

\* The deferred advance from stage 2 was applied: terminal stage, overlay shown.
C5_Witness ==
  /\ lastOp.op = "stage-timer"
  /\ lastOp.n = NumStages - 1
  /\ stageIndex = NumStages - 1
  /\ showTutorial

\* -------------------------------------------------------- the ledger
SessionLog(key) == [i \in 1..LOG_LIMIT |-> Entry("en", "harvest", key, MANUAL_HARVEST_REWARDS[key])]

\* Stage 1: one terraced field, a cabin with two tenants on automatic wages,
\* sunleaf near its capacity, the wages of the current day paid.
WageSession ==
  [MountState(EmptyStore, "") EXCEPT
     !.resources = applyRateDelta(Amounts(@, [sunleaf |-> T(399), wood |-> U(10), stone |-> U(3)]),
                                  DISTRICTS["terraced_fields"].productionBoost),
     !.tick = DocTick,
     !.stageIndex = 1,
     !.nextStageRef = 1,
     !.showIntroDialogue = FALSE,
     !.unlockedChapters = <<"chapter_1", "chapter_3">>,
     !.activeChapterId = "chapter_3",
     !.milestones = <<"tutorial-overlay-dismissed">>,
     !.manuallyUnlockedResources = <<"wood">>,
     !.districts["terraced_fields"] = 1,
     !.facilityCounts = [cabin |-> 1, city_hall |-> 1],
     !.selectedFacilityId = "cabin",
     !.assignedTenants = 2,
     !.tenantMorale = <<INITIAL_MORALE, INITIAL_MORALE>>,
     !.autoPayWages = TRUE,
     !.lastPayDay = DayOf(DocTick),
     !.skills["gathering"] = [level |-> 2, experience |-> 150, maxLevel |-> MAX_SKILL_LEVEL],
     !.log = SessionLog("sunleaf"),
     !.currentSaveName = "alpha",
     !.gameState = "paused",
     !.dirty = {}]

\* Stage 2: wood, sunleaf and stone in stock, a storage chest one second
\* from completion, execution still locked.
BuildSession ==
  [MountState(EmptyStore, "") EXCEPT
     !.resources = Amounts(@, [sunleaf |-> U(40), wood |-> U(30), stone |-> U(30), science |-> U(5)]),
     !.tick = DocTick,
     !.stageIndex = 2,
     !.nextStageRef = 2,
     !.showIntroDialogue = FALSE,
     !.unlockedChapters = <<"chapter_1", "chapter_3", "chapter_4", "chapter_7">>,
     !.activeChapterId = "chapter_7",
     !.milestones = <<"tutorial-overlay-dismissed">>,
     !.manuallyUnlockedResources = <<"wood">>,
     !.selectedFacilityId = "cabin",
     !.craftingRecipe = "storage_chest",
     !.craftingProgress = RECIPES["storage_chest"].craftTime - 1,
     !.skills["gathering"] = [level |-> 2, experience |-> 150, maxLevel |-> MAX_SKILL_LEVEL],
     !.log = SessionLog("wood"),
     !.currentSaveName = "beta",
     !.gameState = "paused",
     !.dirty = {}]

\* Stage 3: execution unlocked and nearly full, for the directives.
DirectiveSession ==
  [MountState(EmptyStore, "") EXCEPT
     !.resources = Amounts(@, [sunleaf |-> U(12), wood |-> U(2), stone |-> U(9), science |-> U(10),
                               energy |-> U(12), execution |-> T(98)]),
     !.tick = DocTick,
     !.stageIndex = 3,
     !.nextStageRef = 3,
     !.showIntroDialogue = FALSE,
     !.unlockedChapters = <<"chapter_1", "chapter_3", "chapter_4", "chapter_7", "chapter_9">>,
     !.activeChapterId = "chapter_9",
     !.milestones = <<"tutorial-overlay-dismissed">>,
     !.manuallyUnlockedResources = <<"wood", "execution">>,
     !.selectedFacilityId = "cabin",
     !.skills["gathering"] = [level |-> 2, experience |-> 150, maxLevel |-> MAX_SKILL_LEVEL],
     !.log = SessionLog("execution"),
     !.currentSaveName = "gamma",
     !.gameState = "paused",
     !.dirty = {}]

\* What the player does in each session.
Wages == currentSaveName \in {"alpha", "delta"}
Building == currentSaveName = "beta"
Directing == currentSaveName = "gamma"

InitLedger ==
  /\ Start(MountState([EmptyStore EXCEPT !["alpha"] = serialize(WageSession),
                                         !["beta"] = serialize(BuildSession),
                                         !["gamma"] = serialize(DirectiveSession)], "gamma"))
  /\ lastOp = Mounted

NextLedger ==
  \/ FlushEffects
  \/ \E n \in {"alpha", "beta", "gamma"} : LoadSelectedSave(n)
  \/ NewGame("delta")
  \/ IntroSkip
  \/ Wages /\ Tick
  \/ Wages /\ ManualHarvest("sunleaf")
  \/ Wages /\ PayWages
  \/ Wages /\ StartCraft("storage_chest")
  \/ Building /\ CraftTick
  \/ Building /\ AllocateCapacity("wood")
  \/ Building /\ Expand("terraced_fields")
  \/ Building /\ \E f \in FacilityId : BuildFacility(f)
  \/ Building /\ UnlockResource("execution")
  \/ Directing /\ \E a \in ActionId : Directive(a)
  \/ Directing /\ ManualHarvest("execution")
  \/ Directing /\ Tick

SpecLedger == InitLedger /\ [][NextLedger]_vars

\* C1: every resource's amount lies between 0 and its capacity.
C1_AmountWithinCapacity ==
  \A k \in ResourceKey : 0 <= resources[k].amount /\ resources[k].amount <= resources[k].capacity

\* A directive's grant was cut at the capacity of its resource.
C1_Witness ==
  /\ lastOp.op = "directive"
  /\ lastOp.arg = "archive_colloquium"
  /\ resources["science"].amount = resources["science"].capacity


\* ------------------------------------------------ crafts to completion
\* Stage 3 with the stock every recipe of both catalogs can be paid from,
\* nothing crafted or equipped yet.
WorkshopSession ==
  [MountState(EmptyStore, "") EXCEPT
     !.resources = Amounts(@, [sunleaf |-> U(12), wood |-> U(20), stone |-> U(15),
                               science |-> U(10), energy |-> U(8)]),
     !.tick = DocTick,
     !.stageIndex = 3,
     !.nextStageRef = 3,
     !.showIntroDialogue = FALSE,
     !.unlockedChapters = <<"chapter_1", "chapter_3", "chapter_4", "chapter_7", "chapter_9">>,
     !.activeChapterId = "chapter_9",
     !.milestones = <<"tutorial-overlay-dismissed">>,
     !.manuallyUnlockedResources = <<"wood">>,
     !.selectedFacilityId = "cabin",
     !.skills["gathering"] = [level |-> 2, experience |-> 150, maxLevel |-> MAX_SKILL_LEVEL],
     !.log = SessionLog("wood"),
     !.currentSaveName = "alpha",
     !.gameState = "paused",
     !.dirty = {}]

\* The first craft of the session: the slot free, nothing equipped, nothing
\* to allocate.
FirstCraft ==
  craftingRecipe = "none" /\ equippedTools = NoTools /\ pendingAllocation = NoAllocation

InitWorkshop ==
  /\ Start(MountState([EmptyStore EXCEPT !["alpha"] = serialize(WorkshopSession)], "alpha"))
  /\ lastOp = Mounted

NextWorkshop ==
  \/ FlushEffects
  \/ LoadSelectedSave("alpha")
  \/ FirstCraft /\ \E id \in RecipeId : StartCraft(id)
  \/ FirstCraft /\ \E id \in ToolId : StartToolCraft(id)
  \/ CraftTick

\* The 1-second interval of a running craft keeps firing, and every commit's
\* effects run.
SpecWorkshopFair ==
  InitWorkshop /\ [][NextWorkshop]_vars /\ WF_vars(CraftTick) /\ WF_vars(FlushEffects)

\* C11: every started craft completes: whatever recipe of the item or tool
\* catalog occupies the slot, the slot is eventually freed (craftingRecipe
\* back to none, craftingProgress back to 0).
C11_EveryCraftCompletes ==
  (craftingRecipe # "none") ~> (craftingRecipe = "none" /\ craftingProgress = 0)


\* -------------------------------------------------- completed crafts
\* Stage 1: the wooden saw and the wooden pickaxe equipped, wood and stone
\* for a stone saw and a pair of wooden shears.
ToolSession ==
  [MountState(EmptyStore, "") EXCEPT
     !.resources = Amounts(@, [sunleaf |-> U(12), wood |-> U(12), stone |-> U(6)]),
     !.tick = DocTick,
     !.stageIndex = 1,
     !.nextStageRef = 1,
     !.showIntroDialogue = FALSE,
     !.unlockedChapters = <<"chapter_1", "chapter_3">>,
     !.activeChapterId = "chapter_3",
     !.milestones = <<"tutorial-overlay-dismissed">>,
     !.manuallyUnlockedResources = <<"wood">>,
     !.equippedTools = [NoTools EXCEPT !["saw"] = "wooden_saw", !["pickaxe"] = "wooden_pickaxe"],
     !.selectedFacilityId = "cabin",
     !.skills["gathering"] = [level |-> 2, experience |-> 150, maxLevel |-> MAX_SKILL_LEVEL],
     !.log = SessionLog("wood"),
     !.currentSaveName = "alpha",
     !.gameState = "paused",
     !.dirty = {}]

BenchTools == {"stone_saw", "wooden_shears"}
BenchKeys == {"wood", "stone"}
Tooling == currentSaveName = "alpha"
SlotFree == craftingRecipe = "none"

InitBench ==
  /\ Start(MountState([EmptyStore EXCEPT !["alpha"] = serialize(ToolSession),
                                         !["beta"] = serialize(BuildSession)], "beta"))
  /\ lastOp = Mounted

NextBench ==
  \/ FlushEffects
  \/ \E n \in {"alpha", "beta"} : LoadSelectedSave(n)
  \/ Tooling /\ SlotFree /\ \E id \in BenchTools : StartToolCraft(id)
  \/ Building /\ SlotFree /\ StartCraft("storage_chest")
  \/ CraftTick
  \/ \E k \in BenchKeys : AllocateCapacity(k)
  \/ DismissAllocation
  \/ Tooling /\ Tick

SpecBench == InitBench /\ [][NextBench]_vars

\* The interval callback that completes the craft of id.
Completes(id) ==
  lastOp'.op = "craft-tick" /\ craftingRecipe = id /\ craftingRecipe' = "none"

C12_Step ==
  \A id \in ToolId :
    Completes(id) =>
      /\ equippedTools' = [equippedTools EXCEPT ![TOOL_RECIPES[id].toolType] = id]
      /\ pendingAllocation' = pendingAllocation
      /\ resources' = resources
      /\ craftingProgress' = 0

\* C12: the completion of a tool craft equips the tool in the slot of its
\* tool type, in place of whatever was there, keeps the tools of the other
\* slots, creates no pending allocation and changes no resource.
C12_ToolEquippedOnCompletion == [][C12_Step]_vars

\* The stone saw was completed and took the place of the wooden saw, next
\* to the wooden pickaxe.
C12_Witness ==
  /\ lastOp.op = "craft-tick" /\ lastOp.arg = "stone_saw"
  /\ craftingRecipe = "none"
  /\ equippedTools["saw"] = "stone_saw"
  /\ equippedTools["pickaxe"] = "wooden_pickaxe"
  /\ resources["wood"].amount = U(4)

C13_Step ==
  /\ \A id \in RecipeId :
       Completes(id) =>
         /\ pendingAllocation' = [recipeId |-> id, boost |-> RECIPES[id].capacityBoost]
         /\ craftingProgress' = 0
  /\ pendingAllocation # NoAllocation /\ pendingAllocation' # pendingAllocation =>
       /\ lastOp'.op = "allocate"
       /\ pendingAllocation' = NoAllocation
       /\ \A k \in ResourceKey :
            resources'[k].capacity =
              resources[k].capacity + (IF k = lastOp'.arg THEN pendingAllocation.boost ELSE 0)

\* C13: the completion of an item craft creates the pending allocation
\* (recipe id, boost) and frees the slot; a pending allocation changes only
\* in the step that applies it, which raises the capacity of the selected
\* resource, and of no other, by the boost and clears it.
C13_AllocationPersists == [][C13_Step]_vars


\* ------------------------------------------------------------ tenants
\* Stage 1: a city hall and one cabin built, nobody recruited yet.
HallSession ==
  [MountState(EmptyStore, "") EXCEPT
     !.resources = Amounts(@, [sunleaf |-> U(12), wood |-> U(20), stone |-> U(3)]),
     !.tick = DocTick,
     !.stageIndex = 1,
     !.nextStageRef = 1,
     !.showIntroDialogue = FALSE,
     !.unlockedChapters = <<"chapter_1", "chapter_3">>,
     !.activeChapterId = "chapter_3",
     !.milestones = <<"tutorial-overlay-dismissed">>,
     !.manuallyUnlockedResources = <<"wood">>,
     !.facilityCounts = [cabin |-> 1, city_hall |-> 1],
     !.selectedFacilityId = "city_hall",
     !.skills["gathering"] = [level |-> 2, experience |-> 150, maxLevel |-> MAX_SKILL_LEVEL],
     !.log = SessionLog("sunleaf"),
     !.currentSaveName = "alpha",
     !.gameState = "paused",
     !.dirty = {}]

\* The same valley later: five tenants waiting with two seconds left to
\* accept them, the recruitment cooldown about to end.
WaitingSession ==
  [HallSession EXCEPT
     !.pendingTenants = RECRUIT_BATCH,
     !.tenantTimeout = 2,
     !.tenantRecruitCooldown = 2,
     !.lastPayDay = DayOf(DocTick),
     !.currentSaveName = "beta"]

\* The recruitment cooldown is followed for its last MaxCountdown seconds.
NearEnd(seconds) == seconds <= MaxCountdown

InitTenants ==
  /\ Start(MountState([EmptyStore EXCEPT !["alpha"] = serialize(HallSession),
                                         !["beta"] = serialize(WaitingSession)], "beta"))
  /\ lastOp = Mounted

NextTenants ==
  \/ FlushEffects
  \/ \E n \in {"alpha", "beta"} : LoadSelectedSave(n)
  \/ NewGame("delta")
  \/ IntroSkip
  \/ RecruitTenants
  \/ AssignTenants
  \/ BuildFacility("cabin")
  \/ NearEnd(tenantRecruitCooldown) /\ RecruitTick
  \/ TimeoutTick

SpecTenants == InitTenants /\ [][NextTenants]_vars

RecruitCall == lastOp'.op = "recruit"

C14_Step ==
  RecruitCall =>
    IF hasCityHall(Cur) /\ tenantRecruitCooldown = 0
      THEN /\ pendingTenants' = pendingTenants + 5
           /\ tenantRecruitCooldown' = 300
           /\ tenantTimeout' = 120
      ELSE /\ pendingTenants' = pendingTenants
           /\ tenantRecruitCooldown' = tenantRecruitCooldown
           /\ tenantTimeout' = tenantTimeout
           /\ log' = log
           /\ ~hasCityHall(Cur) => pendingTenants' = 0

\* C14: a recruitment succeeds exactly when a city hall is built and the
\* recruitment cooldown is 0; it then adds 5 pending tenants and sets the
\* cooldown to 300 and the acceptance timeout to 120; otherwise pending
\* tenants, cooldown, timeout and log are unchanged, and without a city
\* hall the pending tenants stay at 0.
C14_RecruitNeedsHallAndCooldown == [][C14_Step]_vars

\* A recruitment was accepted on top of tenants that were still waiting.
C14_Witness ==
  /\ lastOp.op = "recruit"
  /\ pendingTenants = 2 * RECRUIT_BATCH
  /\ tenantRecruitCooldown = RECRUIT_COOLDOWN_SECONDS
  /\ tenantTimeout = TENANT_TIMEOUT_SECONDS

TimeoutCall == lastOp'.op = "timeout-tick"
Discarding == pendingTenants' < pendingTenants /\ ~SessionSwitch /\ lastOp'.op # "assign-tenants"

C15_Step ==
  /\ TimeoutCall =>
       /\ tenantTimeout' = tenantTimeout - 1
       /\ IF tenantTimeout' = 0
            THEN /\ pendingTenants' = 0
                 /\ log' = Prepend(Entry(language, "timeout", "", pendingTenants), log)
            ELSE pendingTenants' = pendingTenants /\ log' = log
  /\ Discarding => TimeoutCall /\ tenantTimeout' = 0

\* C15: each second of the acceptance timeout lowers it by one; the second
\* that brings it to 0 with tenants pending discards them all with one log
\* entry; pending tenants are discarded in no other step, so never while
\* the timeout is above zero.
C15_TimeoutDiscardsPending == [][C15_Step]_vars

\* The timeout ran out on five waiting tenants.
C15_Witness ==
  /\ lastOp.op = "timeout-tick"
  /\ tenantTimeout = 0
  /\ pendingTenants = 0
  /\ Len(log) > 0 /\ log[1] = Entry("en", "timeout", "", RECRUIT_BATCH)

AssignCall == lastOp'.op = "assign-tenants"
Moved == Min(pendingTenants, availableHousing(Cur))

C16_Step ==
  /\ AssignCall =>
       IF Moved > 0
         THEN /\ pendingTenants' = pendingTenants - Moved
              /\ assignedTenants' = assignedTenants + Moved
              /\ tenantMorale' = tenantMorale \o [i \in 1..Moved |-> 100]
              /\ tenantTimeout' = 0
         ELSE Cur' = Cur
  /\ TimeoutCall => tenantTimeout > 0

HamletSession ==
  [HallSession EXCEPT
     !.assignedTenants = 1,
     !.tenantMorale = <<INITIAL_MORALE>>,
     !.resourceWorkers["sunleaf"] = 1,
     !.pendingTenants = 1,
     !.lastPayDay = DayOf(DocTick) - 1,
     !.currentSaveName = "beta"]

\* The village as it was saved on day 14 of a session played without
\* paying wages: of five recruits two were housed on day 4 and have lost 10
\* morale on each of the days 4, 6, ..., 14; both work, three recruits are
\* still pending.
VillageSession ==
  [HallSession EXCEPT
     !.resources = Amounts(@, [sunleaf |-> U(4), wood |-> U(20), stone |-> U(3)]),
     !.assignedTenants = 2,
     !.tenantMorale = <<INITIAL_MORALE - 6 * MORALE_PENALTY, INITIAL_MORALE - 6 * MORALE_PENALTY>>,
     !.pendingTenants = RECRUIT_BATCH - 2,
     !.resourceWorkers = [ZeroWorkers EXCEPT !["sunleaf"] = 1, !["wood"] = 1],
     !.lastPayDay = DayOf(DocTick),
     !.log = [i \in 1..LOG_LIMIT |-> Entry("en", "wages-missed", "", 0)]]

\* The component back at the main menu after Save and Exit from that
\* session: the cells still hold the session, the store holds its save.
VillageState ==
  [VillageSession EXCEPT
     !.gameState = "main-menu",
     !.store = [EmptyStore EXCEPT !["alpha"] = serialize(VillageSession),
                                  !["beta"] = serialize(HamletSession)],
     !.lastSaveName = "alpha"]

Exited == [op |-> "save-exit", arg |-> "", n |-> 0]

InitVillage == Start(VillageState) /\ lastOp = Exited

NextVillage ==
  \/ FlushEffects
  \/ Tick
  \/ \E n \in {"alpha", "beta"} : LoadSelectedSave(n)
  \/ NewGame("delta")
  \/ IntroSkip
  \/ AssignTenants
  \/ BuildFacility("cabin")
  \/ UnassignWorker("sunleaf")
  \/ AssignWorker("wood")

SpecVillage == InitVillage /\ [][NextVillage]_vars

\* C17: assignedTenants never exceeds the total housing (the sum over the
\* facilities of count x capacity), and neither assignedTenants nor
\* pendingTenants is negative.
C17_TenantsWithinHousing ==
  /\ assignedTenants <= totalHousingCapacity(facilityCounts)
  /\ assignedTenants >= 0
  /\ pendingTenants >= 0

\* A step in which tenants of low morale leave.
Departure == lastOp'.op = "flush" /\ assignedTenants' < assignedTenants

C18_Step ==
  /\ AssignCall \/ Departure \/ lastOp'.op = "new-game" =>
       /\ Len(tenantMorale') = assignedTenants'
       /\ \A i \in 1..Len(tenantMorale') : tenantMorale'[i] \in 0..100
  /\ Departure => Len(tenantMorale) - Len(tenantMorale') = assignedTenants - assignedTenants'

\* C18: after every assignment, every departure and every new game the
\* morale array has one entry per assigned tenant, each within 0..100, and
\* a departure removes one morale entry per departed tenant.
C18_MoralePerTenant == [][C18_Step]_vars

WorkersWithinTenants ==
  /\ \A k \in ResourceKey : resourceWorkers[k] >= 0
  /\ totalAssignedWorkers(resourceWorkers) <= assignedTenants

C19_Step ==
  Departure =>
    /\ \A k \in ResourceKey : resourceWorkers'[k] <= resourceWorkers[k]
    /\ totalAssignedWorkers(resourceWorkers') =
         Min(totalAssignedWorkers(resourceWorkers), assignedTenants')
    /\ \A i, j \in 1..Len(ResourceKeys) :
         i < j /\ resourceWorkers'[ResourceKeys[j]] < resourceWorkers[ResourceKeys[j]]
           => resourceWorkers'[ResourceKeys[i]] = 0

\* C19: no resource has a negative number of workers and the workers sum to
\* at most assignedTenants; when departures leave fewer tenants than
\* workers, workers are taken off the resources in key order until the sum
\* equals the tenants that remain.
C19_WorkersWithinTenants == []WorkersWithinTenants /\ [][C19_Step]_vars


\* ------------------------------------------------------ daily wages
\* The wage effect runs in this step, on a day not yet paid, with auto-pay
\* on, tenants assigned and the rendered sunleaf covering the wages.
AutoPayDue ==
  /\ lastOp'.op = "flush"
  /\ Fires(Cur, WageDeps)
  /\ autoPayWages
  /\ assignedTenants > 0
  /\ DayOf(tick) # lastPayDay
  /\ resources["sunleaf"].amount >= U(assignedTenants * 5)

\* The sunleaf the production effect of the same step leaves.
SunleafProduced ==
  IF Fires(Cur, ProductionDeps) /\ tick # 0
    THEN produce(Cur, resources["sunleaf"], "sunleaf").amount
    ELSE resources["sunleaf"].amount

C20_Step ==
  /\ AutoPayDue =>
       /\ resources'["sunleaf"].amount = SunleafProduced - U(assignedTenants * 5)
       /\ lastPayDay' = DayOf(tick)
  /\ lastOp'.op = "flush" /\ DayOf(tick) = lastPayDay =>
       /\ resources'["sunleaf"].amount >= resources["sunleaf"].amount
       /\ lastPayDay' = lastPayDay

\* C20: with auto-pay on, a tenant assigned and sunleaf for the wages, the
\* effects of a day not yet paid deduct assignedTenants x 5 sunleaf and set
\* lastPayDay to that day; the effects of a day already paid deduct
\* nothing, so no day is paid twice.
C20_AutoPayOncePerDay == [][C20_Step]_vars

\* The two tenants of the wage session were paid on the first new day.
C20_Witness ==
  /\ lastOp.op = "flush"
  /\ currentSaveName = "alpha"
  /\ autoPayWages
  /\ lastPayDay = DayOf(DocTick) + 1
  /\ InSeq(Entry("en", "wages-paid", "", 2), log)


\* --------------------------------------------- penalties and attrition
\* The village session while it is played, on the day after the sixth
\* unpaid day: both tenants at morale 40, nobody left on the day's roll.
MoraleState ==
  [VillageSession EXCEPT
     !.lastPayDay = DayOf(DocTick) - 1,
     !.gameState = "playing",
     !.store = [EmptyStore EXCEPT !["alpha"] = serialize(HallSession)],
     !.lastSaveName = "alpha"]

Resumed == [op |-> "resume", arg |-> "", n |-> 0]

InitMorale == Start(MoraleState) /\ lastOp = Resumed

NextMorale ==
  \/ FlushEffects
  \/ Tick
  \/ UnassignWorker("sunleaf")
  \/ AssignWorker("wood")
  \/ SetLanguage("zh")

SpecMorale == InitMorale /\ [][NextMorale]_vars

\* s is t with some of its entries left out.
RECURSIVE Trimmed(_, _)
Trimmed(s, t) ==
  IF s = <<>> THEN TRUE
  ELSE IF t = <<>> THEN FALSE
  ELSE IF Head(s) = Head(t) /\ Trimmed(Tail(s), Tail(t)) THEN TRUE
  ELSE Trimmed(s, Tail(t))

\* The wage effect runs in this step on a day that is more than one day
\* after the last paid day, and does not pay.
PenaltyDue ==
  /\ lastOp'.op = "flush"
  /\ Fires(Cur, WageDeps)
  /\ assignedTenants >= 1
  /\ DayOf(tick) > lastPayDay + 1
  /\ ~(autoPayWages /\ resources["sunleaf"].amount >= U(assignedTenants * 5))

C21_Step ==
  lastOp'.op = "flush" =>
    IF PenaltyDue
      THEN Trimmed(tenantMorale', [i \in 1..Len(tenantMorale) |-> Max(0, tenantMorale[i] - 10)])
      ELSE Trimmed(tenantMorale', tenantMorale)

\* C21: on a day more than one day after lastPayDay on which the wages are
\* not paid, with a tenant assigned, the morale of every tenant drops by 10
\* (not below 0); that day being recorded, it drops once; in every other
\* run of the effects no morale entry changes its value.
C21_PenaltyOncePerUnpaidDay == [][C21_Step]_vars

C22_Step ==
  Departure =>
    /\ "day" \in dirty
    /\ \E gone \in SUBSET LowMorale(Cur) :
         Len(tenantMorale') = Len(tenantMorale) - Cardinality(gone)

\* C22: tenants leave only in the effects of the commit that changed the
\* day, so each tenant faces one roll per day whatever else changes that
\* day, and only tenants of morale below 50 leave.
C22_AttritionOncePerDay == [][C22_Step]_vars


\* ------------------------------------------------- saved documents
\* The fields the round trip is stated for.
RoundTripFields ==
  {"resources", "tick", "stageIndex", "unlockedChapters", "activeChapterId",
   "milestones", "completedPurchases", "purchaseCounts", "manualCooldowns",
   "manualHarvestActive", "districts", "craftingRecipe", "craftingProgress",
   "equippedTools", "facilityCounts", "tenantRecruitCooldown",
   "pendingTenants", "tenantTimeout", "assignedTenants", "tenantMorale",
   "autoPayWages", "lastPayDay", "skills", "resourceWorkers",
   "manuallyUnlockedResources"}

\* This step loads a document that saveGame wrote.
LoadsSaved ==
  /\ lastOp'.op = "load"
  /\ lastOp'.arg \in SaveNames
  /\ DOMAIN store[lastOp'.arg] = SavedFields \cup {"version"}

C23_Step ==
  LoadsSaved => \A f \in RoundTripFields : Cur'[f] = store[lastOp'.arg][f]

\* C23: loading a document written by saveGame leaves the game equal to
\* the saved state on every field of the round trip, whatever was held
\* before the load; deserializeState of the serialized current state does
\* the same.
C23_SaveLoadRoundTrip ==
  /\ [][C23_Step]_vars
  /\ [](\A f \in RoundTripFields :
          deserializeState(MountState(store, lastSaveName), serialize(Cur))[f] = Cur[f])


\* The keys of a document written before crafting, facilities and tenants
\* were part of the schema.
LegacyFields ==
  {"version", "resources", "tick", "stageIndex", "showTutorial",
   "showIntroDialogue", "introIndex", "unlockedChapters", "activeChapterId",
   "milestones", "completedPurchases", "purchaseCounts", "civilizationLevel",
   "log", "language", "districts"}

LegacyDocument == [f \in LegacyFields |-> serialize(EarlySession)[f]]

\* The main menu after Save and Exit from the village session; beside its
\* save the store holds a legacy document and a text that is no document.
ArchiveState ==
  [VillageState EXCEPT
     !.store = [EmptyStore EXCEPT !["alpha"] = serialize(VillageSession),
                                  !["beta"] = LegacyDocument,
                                  !["gamma"] = Garbled]]

\* The backend read of loadGame throws: it returns false before any setter.
LoadSelectedSaveThrown(name) ==
  Idle /\ gameState = "main-menu" /\ Done(Cur, "load-thrown", name, 0)

InitArchive == Start(ArchiveState) /\ lastOp = Exited

NextArchive ==
  \/ FlushEffects
  \/ Tick
  \/ \E n \in SaveNames : LoadSelectedSave(n)
  \/ \E n \in SaveNames : LoadSelectedSaveThrown(n)
  \/ ContinueGame

SpecArchive == InitArchive /\ [][NextArchive]_vars

\* The value loading gives a field the document does not hold.
SchemaDefault ==
  [MountState(store, lastSaveName) EXCEPT
     !.showIntroDialogue = FALSE,
     !.unlockedChapters = <<>>,
     !.log = localizedDefaults(language)]

\* This step hands a stored document to loadGame.
LoadsDocument ==
  /\ lastOp'.op = "load"
  /\ lastOp'.arg \in SaveNames
  /\ Loadable(store[lastOp'.arg])

C24_Step ==
  LoadsDocument =>
    /\ gameState' = "playing"
    /\ \A f \in SavedFields \ DOMAIN store[lastOp'.arg] : Cur'[f] = SchemaDefault[f]

\* C24: loading a document that omits fields of the schema succeeds and
\* leaves every omitted field at its default, whatever the field held
\* before the load.
C24_OmittedFieldsGetDefaults == [][C24_Step]_vars

\* This step is a load that fails: the read throws, the save is missing,
\* or the stored text is no document.
FailedLoad ==
  \/ lastOp'.op = "load-thrown"
  \/ /\ lastOp'.op = "load"
     /\ lastOp'.arg \in SaveNames => ~Loadable(store[lastOp'.arg])

C25_Step == FailedLoad => Cur' = Cur /\ gameState' # "playing"

\* C25: a load that fails leaves every cell, the store and the screen as
\* they were; the game does not start playing.
C25_FailedLoadChangesNothing == [][C25_Step]_vars

\* A load of the garbled save has just failed at the menu, the cells still
\* holding the village session.
C25_Witness ==
  /\ lastOp.op = "load"
  /\ lastOp.arg = "gamma"
  /\ store["gamma"] = Garbled
  /\ gameState = "main-menu"
  /\ tenantMorale = VillageSession.tenantMorale


\* ------------------------------------------------ unaffordable calls
\* Stage 3 with an almost empty treasury: one housed tenant, four sunleaf,
\* nothing else; wood and execution are still to be unlocked.
PoorSession ==
  [HallSession EXCEPT
     !.resources = Amounts(INITIAL_RESOURCES, [sunleaf |-> U(4)]),
     !.stageIndex = 3,
     !.nextStageRef = 3,
     !.unlockedChapters = <<"chapter_1", "chapter_3", "chapter_4", "chapter_7", "chapter_9">>,
     !.activeChapterId = "chapter_9",
     !.manuallyUnlockedResources = <<>>,
     !.assignedTenants = 1,
     !.tenantMorale = <<INITIAL_MORALE>>,
     !.lastPayDay = DayOf(DocTick)]

InitPurse ==
  /\ Start(MountState([EmptyStore EXCEPT !["alpha"] = serialize(PoorSession),
                                         !["beta"] = serialize(DirectiveSession)], "alpha"))
  /\ lastOp = Mounted

NextPurse ==
  \/ FlushEffects
  \/ \E n \in {"alpha", "beta"} : LoadSelectedSave(n)
  \/ \E id \in RecipeId : StartCraft(id)
  \/ \E id \in ToolId : StartToolCraft(id)
  \/ \E d \in DistrictId : Expand(d)
  \/ \E f \in FacilityId : BuildFacility(f)
  \/ \E k \in ResourceKey : UnlockResource(k)
  \/ \E a \in ActionId : Directive(a)
  \/ PayWages

SpecPurse == InitPurse /\ [][NextPurse]_vars

\* This step invokes a purchase whose cost the treasury cannot bear.
Unaffordable ==
  \/ lastOp'.op = "craft" /\ ~canAfford(resources, RECIPES[lastOp'.arg].cost)
  \/ lastOp'.op = "toolcraft" /\ ~canAfford(resources, TOOL_RECIPES[lastOp'.arg].cost)
  \/ lastOp'.op = "expand" /\ ~canAfford(resources, DISTRICTS[lastOp'.arg].expansionCost)
  \/ lastOp'.op = "build" /\ ~canAfford(resources, FACILITIES[lastOp'.arg].cost)
  \/ lastOp'.op = "unlock" /\ ~canAfford(resources, RESOURCE_UNLOCK_DATA[lastOp'.arg].cost)
  \/ lastOp'.op = "directive" /\ ~canExecute(Cur, ACTIONS_LIST[lastOp'.arg])

\* This step invokes the manual wage payment without the sunleaf for it.
UnpaidCall == lastOp'.op = "pay" /\ ~wagesPayable(Cur)

Refusal ==
  Entry(language, "wages-insufficient", "", assignedTenants)

C26_RejectedStep ==
  /\ Unaffordable => Cur' = Cur
  /\ UnpaidCall =>
       /\ log' = Prepend(Refusal, log)
       /\ [Cur' EXCEPT !.log = <<>>, !.dirty = {}] = [Cur EXCEPT !.log = <<>>, !.dirty = {}]

\* C26 (amended): an unaffordable craft, tool craft, expansion, facility,
\* unlock or directive changes nothing at all; an unaffordable manual wage
\* payment changes nothing but the log, which gains the refusal entry.
C26_UnaffordableRejected == [][C26_RejectedStep]_vars

\* A manual wage payment has just been refused for lack of sunleaf.
C26_Witness ==
  /\ lastOp.op = "pay"
  /\ ~wagesPayable(Cur)
  /\ log[1].kind = "wages-insufficient"
  /\ currentSaveName = "alpha"

C26_Step == Unaffordable \/ UnpaidCall => Cur' = Cur

\* C26: every cost-bearing call whose cost is not affordable, the manual
\* wage payment included, leaves the whole state unchanged, the log too.
C26_UnaffordableChangesNothing == [][C26_Step]_vars


\* ------------------------------------------------ districts and yield
\* Stage 1 on day 14: one terraced field built, one housed tenant without
\* a post, sunleaf and wood for two more fields.
FieldSession ==
  [HallSession EXCEPT
     !.resources = applyRateDelta(Amounts(@, [sunleaf |-> U(25), wood |-> U(12)]),
                                  DISTRICTS["terraced_fields"].productionBoost),
     !.districts["terraced_fields"] = 1,
     !.assignedTenants = 1,
     !.tenantMorale = <<INITIAL_MORALE>>,
     !.lastPayDay = DayOf(DocTick)]

Farming == currentSaveName = "alpha"

InitFields ==
  /\ Start(MountState([EmptyStore EXCEPT !["alpha"] = serialize(FieldSession)], "alpha"))
  /\ lastOp = Mounted

\* The tenant is posted in the first phases of the session and recalled in
\* the later ones.
NextFields ==
  \/ FlushEffects
  \/ LoadSelectedSave("alpha")
  \/ NewGame("delta")
  \/ IntroSkip
  \/ Playing /\ Tick
  \/ Farming /\ Expand("terraced_fields")
  \/ Farming /\ \E d \in {"terraced_fields", "lumber_groves"} : Demolish(d)
  \/ Farming /\ tick < DocTick + 2 /\ AssignWorker("sunleaf")
  \/ Farming /\ tick >= DocTick + 2 /\ UnassignWorker("sunleaf")

SpecFields == InitFields /\ [][NextFields]_vars

\* The sum over the districts of productionBoost[k] x buildingCount, in
\* tenths per cycle.
BoostSum(k) ==
  DeltaOf(DISTRICTS["terraced_fields"].productionBoost, k) * districts["terraced_fields"]
  + DeltaOf(DISTRICTS["lumber_groves"].productionBoost, k) * districts["lumber_groves"]
  + DeltaOf(DISTRICTS["aurora_forge"].productionBoost, k) * districts["aurora_forge"]
  + DeltaOf(DISTRICTS["moonwater_archives"].productionBoost, k) * districts["moonwater_archives"]
  + DeltaOf(DISTRICTS["sky_harbor"].productionBoost, k) * districts["sky_harbor"]

\* The amount of k after one application of production to the state.
Yield(k) ==
  LET rate == resources[k].rate * resourceWorkers[k] + BoostSum(k)
      gain == rate * (IF k = "sunleaf" THEN SeasonMultiplier(SeasonIndexOf(tick)) ELSE 10)
  IN IF gain <= 0 THEN resources[k].amount
     ELSE Min(resources[k].capacity, Max(0, resources[k].amount + gain))

\* The production effect runs in this step.
Produces == lastOp'.op = "flush" /\ Fires(Cur, ProductionDeps) /\ tick # 0

C27_Step ==
  /\ Produces => \A k \in ResourceKey : resources'[k].amount = Yield(k)
  /\ lastOp'.op = "demolish" =>
       /\ \A k \in ResourceKey : resources'[k].amount = resources[k].amount
       /\ districts[lastOp'.arg] = 0 => Cur' = Cur
       /\ districts[lastOp'.arg] > 0 => districts'[lastOp'.arg] = districts[lastOp'.arg] - 1

C27_Refused ==
  /\ lastOp.op = "demolish"
  /\ lastOp.arg = "lumber_groves"
  /\ districts["lumber_groves"] = 0

C28_Step ==
  /\ lastOp'.op = "flush"
  /\ currentSaveName = "delta"
  /\ "tick" \in dirty
  /\ tick >= 1
  /\ resources["execution"].amount < resources["execution"].capacity
  => resources'["execution"].amount > resources["execution"].amount

\* C28: in a new game left to itself, every tick raises the amount of
\* execution until it stands at capacity.
C28_ExecutionRegenerates == [][C28_Step]_vars

C29_Step ==
  lastOp'.op = "flush" =>
    IF "tick" \in dirty /\ tick >= 1
      THEN \A k \in ResourceKey : resources'[k].amount = Yield(k)
      ELSE \A k \in ResourceKey : resources'[k].amount <= resources[k].amount

\* C29: production is applied in the effects of a tick advance, adding
\* (rate x workers + passive rate) x season multiplier / 4 within
\* [0, capacity], and in no other run of the effects: whatever the player
\* does between two ticks, no amount rises.
C29_ProductionOncePerTick == [][C29_Step]_vars


\* ---------------------------------------------- the opening dialogue
\* A session played with the opening dialogue left open: no tick has
\* elapsed; a chest is two seconds from done, the sunleaf harvest cools
\* down, five recruits wait at the city hall.
IntroSession ==
  [WaitingSession EXCEPT
     !.tick = 0,
     !.showIntroDialogue = TRUE,
     !.craftingRecipe = "storage_chest",
     !.craftingProgress = RECIPES["storage_chest"].craftTime - 2,
     !.manualHarvestActive["sunleaf"] = TRUE,
     !.manualCooldowns["sunleaf"] = 2,
     !.lastPayDay = 0,
     !.currentSaveName = "alpha"]

InitIntro ==
  /\ Start(MountState([EmptyStore EXCEPT !["alpha"] = serialize(IntroSession)], "alpha"))
  /\ lastOp = Mounted

NextIntro ==
  \/ FlushEffects
  \/ LoadSelectedSave("alpha")
  \/ NewGame("delta")
  \/ IntroContinue
  \/ IntroSkip
  \/ Tick
  \/ CraftTick
  \/ CooldownTick
  \/ RecruitTick
  \/ TimeoutTick

SpecIntro == InitIntro /\ [][NextIntro]_vars

IntroShown == showIntroDialogue /\ ~SessionSwitch

C30_Step ==
  IntroShown =>
    /\ tick' = tick
    /\ activeBoosts' = activeBoosts
    /\ lastOp'.op = "flush" => \A k \in ResourceKey : resources'[k].amount = resources[k].amount
    /\ lastOp'.op = "craft-tick" =>
         \/ craftingProgress' = craftingProgress + 1
         \/ craftingRecipe' = "none" /\ craftingProgress + 1 >= craftTime(craftingRecipe)
    /\ lastOp'.op = "cooldown-tick" =>
         \A k \in ResourceKey :
           manualCooldowns'[k] =
             IF manualHarvestActive[k] THEN Max(0, manualCooldowns[k] - 1) ELSE manualCooldowns[k]
    /\ lastOp'.op = "recruit-tick" => tenantRecruitCooldown' = tenantRecruitCooldown - 1
    /\ lastOp'.op = "timeout-tick" => tenantTimeout' = tenantTimeout - 1

\* The one-second timers that have something to count are running.
TimersRun ==
  showIntroDialogue /\ Idle =>
    /\ craftingRecipe # "none" /\ craftingProgress < 100 => ENABLED CraftTick
    /\ (\E k \in ResourceKey : manualHarvestActive[k]) => ENABLED CooldownTick
    /\ tenantRecruitCooldown > 0 => ENABLED RecruitTick
    /\ tenantTimeout > 0 /\ pendingTenants > 0 => ENABLED TimeoutTick

VeteranSession ==
  [DirectiveSession EXCEPT
     !.tick = 200,
     !.resources = Amounts(@, [sunleaf |-> U(30), execution |-> U(1)]),
     !.currentSaveName = "beta"]

ForageBoost(remaining) ==
  [actionId |-> "forage_sunleaf",
   remainingTicks |-> remaining,
   totalDuration |-> durationInTicks(ACTIONS_LIST["forage_sunleaf"]),
   rateDelta |-> ACTIONS_LIST["forage_sunleaf"].rateDelta]

\* The main menu after that exit: the cells hold the session and its
\* boost, the store its save and the save of the directive session.
VeteranState ==
  [VeteranSession EXCEPT
     !.gameState = "main-menu",
     !.activeBoosts = <<ForageBoost(3)>>,
     !.store = [EmptyStore EXCEPT !["beta"] = serialize(VeteranSession),
                                  !["gamma"] = serialize(DirectiveSession)],
     !.lastSaveName = "beta"]

InitBoosts == Start(VeteranState) /\ lastOp = Exited

NextBoosts ==
  \/ FlushEffects
  \/ Tick
  \/ \E n \in {"beta", "gamma"} : LoadSelectedSave(n)
  \/ NewGame("delta")
  \/ IntroSkip
  \/ \E a \in {"forage_sunleaf", "reinforce_trusses"} : Directive(a)

SpecBoosts == InitBoosts /\ [][NextBoosts]_vars

Timed(a) == ACTIONS_LIST[a].duration # 0 /\ DOMAIN ACTIONS_LIST[a].rateDelta # {}

\* The boosts of the state after one decrement, the finished ones removed.
Decremented ==
  SelectSeq([i \in 1..Len(activeBoosts) |->
               [activeBoosts[i] EXCEPT !.remainingTicks = @ - 1]],
            LAMBDA b : b.remainingTicks > 0)

C31_Step ==
  /\ lastOp'.op = "directive" /\ Timed(lastOp'.arg) /\ canExecute(Cur, ACTIONS_LIST[lastOp'.arg]) =>
       \E i \in 1..Len(activeBoosts') :
         /\ activeBoosts'[i].actionId = lastOp'.arg
         /\ activeBoosts'[i].remainingTicks = (ACTIONS_LIST[lastOp'.arg].duration + 4) \div 5
         /\ activeBoosts'[i].totalDuration = activeBoosts'[i].remainingTicks
  /\ lastOp'.op = "flush" =>
       activeBoosts' = IF lastOp.op = "tick" THEN Decremented ELSE activeBoosts

OneBoostPerAction ==
  \A i, j \in 1..Len(activeBoosts) :
    activeBoosts[i].actionId = activeBoosts[j].actionId => i = j

\* C31: a timed directive leaves one boost of its actionId with
\* remainingTicks = totalDuration = ceil(duration / 5); the boosts are
\* decremented in the effects of a tick advance and in no other run of the
\* effects, a boost that reaches zero being removed; no two boosts share an
\* actionId.
C31_BoostLifetime == []OneBoostPerAction /\ [][C31_Step]_vars

C32_Step ==
  /\ lastOp.op = "directive"
  /\ lastOp'.op = "flush"
  /\ \E i \in 1..Len(activeBoosts) :
       activeBoosts[i].actionId = lastOp.arg /\ activeBoosts[i].remainingTicks = activeBoosts[i].totalDuration
  => \A k \in ResourceKey :
       resources'[k].rate = store[currentSaveName].resources[k].rate + SumBoost(activeBoosts', k)

\* C32: once the effects of a timed directive have run, the rate of every
\* resource is its rate without boosts (the one the session was saved
\* with, no permanent rate change being made here) plus the rateDelta of
\* the active boosts.
C32_BoostRaisesRate == [][C32_Step]_vars

\* ---------------------------------------------------------- the calendar
\* The clock is followed for CalendarSpan ticks from two ticks before the
\* first day of each later season, before day 365 and before the new year.
CalendarSpan == 4
CalendarTicks ==
  {d * PHASES_LENGTH - 2 :
     d \in {DAYS_PER_SEASON, 2 * DAYS_PER_SEASON, 3 * DAYS_PER_SEASON,
            4 * DAYS_PER_SEASON, DAYS_PER_YEAR}}

CalendarSession(t) == [FieldSession EXCEPT !.tick = t, !.lastPayDay = DayOf(t)]

ClockTick ==
  /\ Idle /\ ~showIntroDialogue
  /\ \E t \in CalendarTicks : t <= tick /\ tick < t + CalendarSpan
  /\ Done(tickCallback(Cur), "tick", "", 0)

InitCalendar ==
  /\ \E t \in CalendarTicks :
       Start(MountState([EmptyStore EXCEPT !["alpha"] = serialize(CalendarSession(t))], "alpha"))
  /\ lastOp = Mounted

NextCalendar ==
  \/ FlushEffects
  \/ LoadSelectedSave("alpha")
  \/ Playing /\ ClockTick
  \/ AssignWorker("sunleaf")

SpecCalendar == InitCalendar /\ [][NextCalendar]_vars

\* The amount of sunleaf after one application of production with the
\* season multiplier m, in tenths.
SunleafYield(m) ==
  LET rate == resources["sunleaf"].rate * resourceWorkers["sunleaf"] + BoostSum("sunleaf")
  IN IF rate * m <= 0 THEN resources["sunleaf"].amount
     ELSE Min(resources["sunleaf"].capacity, Max(0, resources["sunleaf"].amount + rate * m))

SeasonInTable == SeasonIndexOf(tick) + 1 \in DOMAIN SUNLEAF_SEASON_MULTIPLIERS

C33_Step ==
  Produces =>
    \E i \in DOMAIN SUNLEAF_SEASON_MULTIPLIERS :
      resources'["sunleaf"].amount = SunleafYield(SUNLEAF_SEASON_MULTIPLIERS[i])

\* C33: at every tick the day is tick div 4 + 1 and the season index derived
\* from it is one of 0..3, so the multiplier production applies to sunleaf
\* is an entry of the multiplier table.
C33_SeasonMultiplierInTable ==
  /\ [](DayOf(tick) = tick \div PHASES_LENGTH + 1)
  /\ []SeasonInTable
  /\ [][C33_Step]_vars

\* ------------------------------------------------------------- training
\* Harvesting is followed for MaxTraining harvests after a level is
\* entered and for MaxTraining harvests before it is completed, at the
\* levels TrainedLevels, each harvest once every cooldown has run out.
MaxTraining == 2
TrainedLevels == {1, 2, MAX_SKILL_LEVEL - 1, MAX_SKILL_LEVEL}
Trained(level, experience) ==
  [level |-> level, experience |-> experience, maxLevel |-> MAX_SKILL_LEVEL]
\* Progress a skill has after some number of harvests from a new game.
TrainedSkills ==
  {Trained(l, 0) : l \in TrainedLevels}
    \cup {Trained(l, l * SKILL_EXP_PER_LEVEL - n * SKILL_EXP_PER_HARVEST) :
            l \in TrainedLevels \ {MAX_SKILL_LEVEL}, n \in 1..MaxTraining}

TrainingSession(gathering) ==
  [HarvestSession EXCEPT !.skills["gathering"] = gathering,
                         !.resources = Amounts(@, [sunleaf |-> U(36)]),
                         !.manualCooldowns["wood"] = 0,
                         !.manualHarvestActive["wood"] = FALSE,
                         !.manuallyUnlockedResources = <<"wood", "stone">>]

TrainingModelled(k) ==
  LET skill == skills[SKILL_RESOURCE_MAP[k]]
  IN \/ skill.level >= skill.maxLevel
     \/ skill.experience < MaxTraining * SKILL_EXP_PER_HARVEST
     \/ skill.experience >= skill.level * SKILL_EXP_PER_LEVEL - MaxTraining * SKILL_EXP_PER_HARVEST

TrainingHarvest(k) ==
  /\ Playing
  /\ unlockedResource(Cur, k)
  /\ \A j \in ResourceKey : ~manualHarvestActive[j] /\ manualCooldowns[j] = 0
  /\ TrainingModelled(k)
  /\ \E ups \in Ties(resources, harvestReward(Cur, k)) :
       Done(handleManualHarvest(Cur, k, ups), "harvest", k, manualCooldowns[k])

InitTraining ==
  /\ \E g \in TrainedSkills :
       Start(MountState([EmptyStore EXCEPT !["alpha"] = serialize(TrainingSession(g))], "alpha"))
  /\ lastOp = Mounted

NextTraining ==
  \/ FlushEffects
  \/ LoadSelectedSave("alpha")
  \/ \E k \in {"sunleaf", "stone"} : TrainingHarvest(k)
  \/ CooldownTick

SpecTraining == InitTraining /\ [][NextTraining]_vars

SkillsInRange ==
  \A t \in SkillType :
    /\ 1 <= skills[t].level /\ skills[t].level <= MAX_SKILL_LEVEL
    /\ 0 <= skills[t].experience
    /\ skills[t].experience < skills[t].level * SKILL_EXP_PER_LEVEL

\* The skill after one successful harvest that trains it.
TrainedOnce(skill) ==
  IF skill.level >= MAX_SKILL_LEVEL THEN skill
  ELSE IF skill.experience + 10 >= skill.level * 100
    THEN [skill EXCEPT !.level = @ + 1, !.experience = @ + 10 - skill.level * 100]
  ELSE [skill EXCEPT !.experience = @ + 10]

C34_Step ==
  lastOp'.op = "harvest" /\ lastOp'.n = 0 =>
    \A t \in SkillType :
      skills'[t] = IF SKILL_RESOURCE_MAP[lastOp'.arg] = t THEN TrainedOnce(skills[t]) ELSE skills[t]

\* C34: every skill has 1 <= level <= 100 and 0 <= experience < level x 100;
\* a successful harvest adds 10 experience to the skill of the harvested
\* resource and to no other, levels it up by one with the overflow carried
\* when the experience reaches level x 100, and changes nothing at level 100.
C34_SkillProgress == []SkillsInRange /\ [][C34_Step]_vars

\* A harvest has just taken the gathering skill to its maximum level.
C34_Witness ==
  /\ lastOp.op = "harvest"
  /\ skills["gathering"].level = MAX_SKILL_LEVEL
  /\ Len(log) >= 1
  /\ Head(log) = Entry("en", "levelup", "gathering", MAX_SKILL_LEVEL)

\* --------------------------------------------------- imported documents
\* Lists of a document that lack a catalog entry or hold a foreign one.
Without(list, key) == [k \in DOMAIN list \ {key} |-> list[k]]
WithForeign(list, key, like) == [k \in DOMAIN list \cup {key} |-> IF k = key THEN list[like] ELSE list[k]]

ImportedResources ==
  LET list == serialize(HarvestSession).resources
  IN {list, Without(list, "stone"), WithForeign(list, "gold", "sunleaf")}
ImportedDistricts ==
  LET list == serialize(HarvestSession).districts
  IN {list, Without(list, "sky_harbor"), WithForeign(list, "bazaar", "terraced_fields")}
ImportedSkills ==
  LET list == serialize(HarvestSession).skills
  IN {list, Without(list, "mining"), WithForeign(list, "fishing", "gathering")}

ImportedDocuments ==
  {[serialize(HarvestSession) EXCEPT !.resources = r, !.districts = d, !.skills = sk] :
     r \in ImportedResources, d \in ImportedDistricts, sk \in ImportedSkills}

InitImport ==
  /\ \E doc \in ImportedDocuments :
       Start(MountState([EmptyStore EXCEPT !["alpha"] = doc], "alpha"))
  /\ lastOp = Mounted

NextImport ==
  \/ FlushEffects
  \/ LoadSelectedSave("alpha")
  \/ Playing /\ Tick

SpecImport == InitImport /\ [][NextImport]_vars

\* The catalog with the entries the document's list holds for its keys.
Reconciled(catalog, list) ==
  [k \in DOMAIN catalog |-> IF k \in DOMAIN list THEN list[k] ELSE catalog[k]]

C35_Step ==
  lastOp'.op = "load" /\ gameState' = "playing" =>
    LET doc == store[lastOp'.arg]
    IN /\ resources' = Reconciled(INITIAL_RESOURCES, doc.resources)
       /\ districts' = Reconciled(INITIAL_DISTRICTS, doc.districts)
       /\ skills' = Reconciled(INITIAL_SKILLS, doc.skills)

\* C35: after a load the resources, districts and skills hold exactly the
\* catalog's keys: entries of the document under another key are ignored,
\* catalog entries the document lacks keep their defaults, and the others
\* are the document's entries for their keys.
C35_LoadReconcilesByKey == [][C35_Step]_vars

\* -------------------------------------------------------------- the log
\* The log after the step holds n new entries at its head, then the
\* entries it held before in their order, cut after LOG_LIMIT entries.
Logged(n) ==
  /\ Len(log') = Min(LOG_LIMIT, Len(log) + n)
  /\ \A i \in n + 1..Len(log') : log'[i] = log[i - n]

C36_Step ==
  \/ log' = log
  \/ lastOp'.op \in {"load", "new-game"}
  \/ \E n \in 1..LOG_LIMIT : Logged(n)

\* C36: the log holds at most 6 entries in every reachable state, and a
\* step that logs puts its entries at the head of the log, keeps the older
\* entries in their order and drops those beyond the sixth.
C36_LogIsBounded == [](Len(log) <= LOG_LIMIT) /\ [][C36_Step]_vars

\* A recruitment has just been logged at the head of a full log from
\* which the default entries have been dropped.
C36_Witness ==
  /\ lastOp.op = "recruit"
  /\ Len(log) = LOG_LIMIT
  /\ Head(log) = Entry(language, "recruit", "", RECRUIT_BATCH)
  /\ \A i \in 1..Len(log) : ~InSeq(log[i], localizedDefaults(language))

\* ------------------------------------------------------ purchase limits
\* A limit is "once", a number or absent.
Once == [kind |-> "once", n |-> 1]
Times(n) == [kind |-> "number", n |-> n]
Unlimited == [kind |-> "none", n |-> 0]

\* The limits of the store catalog, and an item sold without a limit.
STORE_CATALOG ==
  ("sunleaf-bundles" :> Times(3)) @@ ("ledger-seal" :> Once) @@ ("reinforced-silos" :> Once)
    @@ ("scholar-stipend" :> Times(2)) @@ ("market-charter" :> Once)
    @@ ("radiant-promissory" :> Once)
OpenItem == "open-stock"
LimitOf(itemId) == IF itemId \in DOMAIN STORE_CATALOG THEN STORE_CATALOG[itemId] ELSE Unlimited

\* Fault injection: a numeric limit admits one purchase more.
nextPurchaseCount_AtLimit(itemId, currentCounts, limit) ==
  LET existing == DeltaOf(currentCounts, itemId)
  IN IF limit.kind = "once" THEN [count |-> existing + 1, allowed |-> existing = 0]
     ELSE IF limit.kind = "number" THEN [count |-> existing + 1, allowed |-> existing <= limit.n]
     ELSE [count |-> existing + 1, allowed |-> TRUE]

nextPurchaseCount(itemId, currentCounts, limit) ==
  LET existing == DeltaOf(currentCounts, itemId)
  IN IF limit.kind = "once" THEN [count |-> existing + 1, allowed |-> existing = 0]
     ELSE IF limit.kind = "number" THEN [count |-> existing + 1, allowed |-> existing < limit.n]
     ELSE [count |-> existing + 1, allowed |-> TRUE]

\* Purchases of the item without a limit are followed up to MaxPurchases.
MaxPurchases == 3

\* A caller that records the returned count only when allowed is true; n
\* records whether it was.
Purchase(itemId) ==
  /\ Playing
  /\ LimitOf(itemId) = Unlimited => DeltaOf(purchaseCounts, itemId) < MaxPurchases
  /\ LET next == nextPurchaseCount(itemId, purchaseCounts, LimitOf(itemId))
         recorded == [k \in DOMAIN purchaseCounts \cup {itemId} |->
                        IF k = itemId THEN next.count ELSE purchaseCounts[k]]
     IN Done(IF next.allowed THEN [Cur EXCEPT !.purchaseCounts = recorded] ELSE Cur,
             "purchase", itemId, IF next.allowed THEN 1 ELSE 0)

InitStore ==
  /\ Start(MountState([EmptyStore EXCEPT !["gamma"] = serialize(DirectiveSession)], "gamma"))
  /\ lastOp = Mounted

NextStore ==
  \/ FlushEffects
  \/ LoadSelectedSave("gamma")
  \/ \E itemId \in DOMAIN STORE_CATALOG \cup {OpenItem} : Purchase(itemId)

SpecStore == InitStore /\ [][NextStore]_vars

\* The number of purchases the limit admits; -1 when there is no limit.
Admitted(limit) ==
  IF limit.kind = "once" THEN 1 ELSE IF limit.kind = "number" THEN limit.n ELSE -1

WithinLimits ==
  \A itemId \in DOMAIN STORE_CATALOG :
    DeltaOf(purchaseCounts, itemId) <= Admitted(STORE_CATALOG[itemId])

C37_Step ==
  lastOp'.op = "purchase" =>
    LET itemId == lastOp'.arg
        existing == DeltaOf(purchaseCounts, itemId)
        below == Admitted(LimitOf(itemId)) = -1 \/ existing < Admitted(LimitOf(itemId))
        next == nextPurchaseCount(itemId, purchaseCounts, LimitOf(itemId))
    IN /\ next.allowed <=> below
       /\ next.count = existing + 1
       /\ lastOp'.n = 1 <=> below
       /\ DeltaOf(purchaseCounts', itemId) = IF below THEN existing + 1 ELSE existing
       /\ \A other \in DOMAIN STORE_CATALOG \cup {OpenItem} :
            other # itemId => DeltaOf(purchaseCounts', other) = DeltaOf(purchaseCounts, other)

\* C37: nextPurchaseCount allows a purchase exactly when the item's count
\* is below its limit ("once" is 1, no limit always allows) and returns the
\* count plus one; with a caller that records the count only when allowed,
\* no item's count exceeds its limit.
C37_PurchaseLimit == []WithinLimits /\ [][C37_Step]_vars

\* The fourth purchase of the bundles has just been refused while the item
\* without a limit has been bought more often than any limit admits.
C37_Witness ==
  /\ lastOp = [op |-> "purchase", arg |-> "sunleaf-bundles", n |-> 0]
  /\ DeltaOf(purchaseCounts, "sunleaf-bundles") = 3
  /\ DeltaOf(purchaseCounts, "ledger-seal") = 1
  /\ DeltaOf(purchaseCounts, OpenItem) = MaxPurchases

\* ------------------------------------------------------------- new game
\* The cells of the simulation that handleNewGame writes, and the session
\* state it leaves alone.
ResetFields ==
  {"resources", "tick", "stageIndex", "unlockedChapters", "activeChapterId",
   "milestones", "completedPurchases", "purchaseCounts", "civilizationLevel",
   "manualCooldowns", "manualHarvestActive", "districts", "craftingRecipe",
   "craftingProgress", "equippedTools", "facilityCounts", "selectedFacilityId",
   "tenantRecruitCooldown", "pendingTenants", "tenantTimeout", "assignedTenants",
   "tenantMorale", "autoPayWages", "lastPayDay", "skills", "resourceWorkers",
   "manuallyUnlockedResources"}
CarriedFields == {"pendingAllocation", "activeBoosts", "nextStageRef"}

Fresh == MountState(EmptyStore, "")
NewGameStarted == lastOp'.op = "new-game" /\ gameState' = "playing"

C38_Step ==
  NewGameStarted => \A f \in ResetFields \cup CarriedFields : Cur'[f] = Fresh[f]

\* C38: immediately after new game every state variable of the session,
\* the pending capacity allocation, the active boosts and the stage-advance
\* marker included, has its initial value.
C38_NewGameResetsAll == [][C38_Step]_vars

C39_Step ==
  NewGameStarted =>
    /\ Loadable(store'[lastOp'.arg])
    /\ \A f \in ResetFields : loadGame(Cur', lastOp'.arg)[f] = Fresh[f]

\* C39: the document new game writes under the new name encodes the
\* initial game state: loading that name right away yields the initial
\* state, not the session that was in memory before.
C39_NewGameSavesInitialState == [][C39_Step]_vars

\* --------------------------------------------------------------- payday
\* Two tenants, auto-pay off, the wages of the day before recorded as paid
\* and sunleaf for two payments.
PaydaySession ==
  [WageSession EXCEPT
     !.resources = Amounts(@, [sunleaf |-> U(25), wood |-> U(10), stone |-> U(3)]),
     !.autoPayWages = FALSE,
     !.lastPayDay = DayOf(DocTick) - 1]

\* The session resumed from its pause, with its save in the store.
PaydayState ==
  [PaydaySession EXCEPT
     !.gameState = "playing",
     !.store = [EmptyStore EXCEPT !["alpha"] = serialize(PaydaySession)],
     !.lastSaveName = "alpha"]

InitPayday == Start(PaydayState) /\ lastOp = Resumed

NextPayday ==
  \/ FlushEffects
  \/ Tick
  \/ PayWages
  \/ \E b \in BOOLEAN : SetAutoPayWages(b)

SpecPayday == InitPayday /\ [][NextPayday]_vars

\* The Pay Wages Now button is pressed and the rendered sunleaf covers the
\* wages.
ManualPayment == lastOp'.op = "pay" /\ wagesPayable(Cur)

C40_Step ==
  /\ ManualPayment => lastPayDay' = DayOf(tick)
  /\ lastOp.op = "pay" /\ lastPayDay = DayOf(tick) /\ lastOp'.op = "flush" =>
       /\ tenantMorale' = tenantMorale
       /\ resources'["sunleaf"].amount >= resources["sunleaf"].amount

\* C40: a successful manual wage payment on day d records lastPayDay = d,
\* and the effects that follow it neither lower any morale for unpaid wages
\* nor deduct the wages of day d again.
C40_ManualPaymentRecorded == [][C40_Step]_vars
=============================================================================
